---------------------------- MODULE Spec2Model ----------------------------
(***************************************************************************)
(* Model of the econops Python client: the request signature               *)
(* (callsignature), the on-disk response cache (get_cached_response,       *)
(* cache_response), the Client request methods and the command line        *)
(* entry point (cli.main).                                                 *)
(*                                                                         *)
(* Python values are tagged records.  A call returns a result record:      *)
(* Ok(v) when it returns v, Raise(e) when exception e leaves the call.     *)
(***************************************************************************)
EXTENDS Integers, Sequences, FiniteSets, TLC

VARIABLES
  sig_calls,    \* callsignature: the calls made so far in the current run, oldest first
  files,        \* ~/.econops/cache: signature -> content of <signature>.pkl, or NoFile
  cache_last,   \* the last event in the cache directory
  client_init,  \* the last call of the Client constructor: its arguments and result
  client,       \* the constructed Client's attributes
  sent,         \* the transport requests issued by the Client, oldest first
  client_ret,   \* the last Client method call and its result
  cli,          \* the last run of cli.main: its arguments and outcome
  race          \* concurrent cache calls for one signature: the file and each call's position

vars == <<sig_calls, files, cache_last, client_init, client, sent, client_ret, cli, race>>

----------------------------------------------------------------------------
(* Python values *)

None == [t |-> "none"]
JInt(n) == [t |-> "int", i |-> n]
JStr(x) == [t |-> "str", s |-> x]
\* a dict keeps its insertion order: a sequence of <<key, value>> with distinct keys
JDict(kvs) == [t |-> "dict", items |-> kvs]
\* an object the json module has no encoding for (object(), a lock, ...)
JObj == [t |-> "obj"]

Ok(v) == [raised |-> FALSE, value |-> v]
Raise(e) == [raised |-> TRUE, exc |-> e]

DictKeys(d) == {d.items[n][1] : n \in 1..Len(d.items)}
DictGet(d, k) == d.items[CHOOSE n \in 1..Len(d.items) : d.items[n][1] = k][2]

\* Python's ==: dicts compare as mappings, whatever their insertion order
RECURSIVE PyEq(_, _)
PyEq(x, y) ==
  /\ x.t = y.t
  /\ IF x.t = "dict"
       THEN /\ DictKeys(x) = DictKeys(y)
            /\ \A k \in DictKeys(x) : PyEq(DictGet(x, k), DictGet(y, k))
       ELSE x = y

\* x or {} as the request methods write it: None and the empty dict are falsy
OrEmptyDict(x) ==
  IF x.t = "none" \/ (x.t = "dict" /\ x.items = <<>>) THEN JDict(<<>>) ELSE x

----------------------------------------------------------------------------
(* json.dumps *)

\* the keys of the model in Python's str order (by code point)
KeyOrder == <<"a", "b">>
KeyRank(k) == CHOOSE n \in 1..Len(KeyOrder) : KeyOrder[n] = k

\* sorted(items) on the keys: insertion sort, stable
RECURSIVE InsertItem(_, _)
InsertItem(kv, sorted) ==
  IF sorted = <<>> THEN <<kv>>
  ELSE IF KeyRank(kv[1]) < KeyRank(Head(sorted)[1])
         THEN <<kv>> \o sorted
         ELSE <<Head(sorted)>> \o InsertItem(kv, Tail(sorted))

RECURSIVE SortItems(_)
SortItems(kvs) ==
  IF kvs = <<>> THEN <<>>
  ELSE InsertItem(kvs[Len(kvs)], SortItems(SubSeq(kvs, 1, Len(kvs) - 1)))

\* json.dumps raises TypeError on a value it cannot encode, at any depth
RECURSIVE JsonSerializable(_)
JsonSerializable(x) ==
  CASE x.t = "obj" -> FALSE
    [] x.t = "dict" -> \A n \in 1..Len(x.items) : JsonSerializable(x.items[n][2])
    [] OTHER -> TRUE

\* the text json.dumps(x, sort_keys=.., separators=(item_sep, key_sep)) produces
\* for a serializable x; the strings of the model need no escaping
RECURSIVE JsonText(_, _, _, _)
RECURSIVE JsonItems(_, _, _, _)
JsonItems(kvs, sort_keys, item_sep, key_sep) ==
  IF kvs = <<>> THEN ""
  ELSE "\"" \o Head(kvs)[1] \o "\"" \o key_sep
       \o JsonText(Head(kvs)[2], sort_keys, item_sep, key_sep)
       \o (IF Tail(kvs) = <<>> THEN ""
           ELSE item_sep \o JsonItems(Tail(kvs), sort_keys, item_sep, key_sep))

JsonText(x, sort_keys, item_sep, key_sep) ==
  CASE x.t = "int" -> ToString(x.i)
    [] x.t = "str" -> "\"" \o x.s \o "\""
    [] x.t = "none" -> "null"
    [] x.t = "dict" ->
         "{" \o JsonItems(IF sort_keys THEN SortItems(x.items) ELSE x.items,
                          sort_keys, item_sep, key_sep) \o "}"

JsonDumps(x, sort_keys, item_sep, key_sep) ==
  IF JsonSerializable(x)
    THEN Ok(JsonText(x, sort_keys, item_sep, key_sep))
    ELSE Raise("TypeError")

----------------------------------------------------------------------------
(* hashlib.sha256(s.encode('utf-8')).hexdigest(): the digests hashlib        *)
(* produces for the routes of the model and for the JSON texts of its       *)
(* payloads (ASCII strings, which utf-8 encodes byte for byte)              *)

Sha256Digests01 ==
     ("/test" :> "b306d9ff847c120dd7eb00fcebe5f118b9875b09db67ad8f0834aea7a0d8cb8c")
  @@ ("/compute/pca" :> "5bb749b976fd23ee9ac61a87893cb5c2a4899f538d4eb9ce034b95f7e607083a")
  @@ ("/api/v2/pca" :> "d1cb288c6e28bda7f9196668d0f8a4c75f1ed8af2bd7d3014e42af6e4e9feaf4")
  @@ ("/r/51613" :> "e7583ffcbe56991fd2339732bf7028aa1b33efd19186c821888f0ede44f56dbf")
  @@ ("/r/52884" :> "e7583ffc161afa79f65fc5841d120f73b50994ab7466c1a652478d2f76b95852")
  @@ ("{}" :> "44136fa355b3678a1146ad16f7e8649e94fb4fc21fe77e8310c060f61caaff8a")
  @@ ("{\"a\":1}" :> "015abd7f5cc57a2dd94b7590f04ad8084273905ee33ec5cebeae62276a97f862")
  @@ ("{\"a\":\"v\"}" :> "900e844fef9aa2c6f00e52d1df824bf94f26795b3cd77241983fe5d6c8c1a762")
  @@ ("{\"a\":{}}" :> "5d8171b9fc362e385a79ccd9d7992c96bcb4afca51d6278068bd1df49863b3a7")
  @@ ("{\"b\":1}" :> "eb8ed3ccb5023093b56f490a46501e88d09736687e609fdbc1c71b3df8b9ccd3")
  @@ ("{\"b\":\"v\"}" :> "77526f6937e958ffc233476edfeffd2824efbc9a94d652fccc5da46439ae21b8")
  @@ ("{\"b\":{}}" :> "205da6a3e0e9263f1dbb626cea69392485b283ce9226a8413588ddfa5aa5b3ae")
  @@ ("{\"a\":{\"a\":1}}" :> "8ff02e51492298394eb8d285b3873e3660c41e58c6de5b51ad6871b003688ec2")
  @@ ("{\"a\":{\"a\":\"v\"}}" :> "f234934f3c97f684f718c5ee2e5a4d15e59f593b7c7c550f09d0721ebcd3a604")
  @@ ("{\"a\":{\"a\":{}}}" :> "143a9d059fc0f3904eb299ed6397d0617c57c55283bf1d209cc7d579b91aa07c")
  @@ ("{\"a\":{\"b\":1}}" :> "815ce69073bf37a71afee34156192e1d9921dfc365dc653a02516902c3a5e2e7")
  @@ ("{\"a\":{\"b\":\"v\"}}" :> "726393aaf9fa302149ac6a82d4034c4430b34e09c1b5bf33178d8530bd0d6e2b")
  @@ ("{\"a\":{\"b\":{}}}" :> "f3ee774c9d33c68894cf1cd760e1b49e531e2d4aee326e09e3652fec5357b536")
  @@ ("{\"b\":{\"a\":1}}" :> "e0e3e858afa0049435837f4847f545ec99bed109738226a46c5433920c31dd4a")
  @@ ("{\"b\":{\"a\":\"v\"}}" :> "c85841177cd5e9f116b1c4cd89334486ec412c3d530b9b397d17a87bb7a8ca58")
  @@ ("{\"b\":{\"a\":{}}}" :> "dff429e940312be5e614c26cd94633a9b89fe2edfe07142e0d7c8ae1bf0adc04")
  @@ ("{\"b\":{\"b\":1}}" :> "05c045c554820c5a74245bf821db0f63105edf39065d927a4967c0031e38a1cf")
  @@ ("{\"b\":{\"b\":\"v\"}}" :> "4965cf68ce053c6fe423a20513bd3b50fc3a8563274d31cc5cf5b104926c4b48")
  @@ ("{\"b\":{\"b\":{}}}" :> "4034c4b5e44818c75ce3afcb5929d25bf9a0b6534d63917c4c0252fe32f8c385")
  @@ ("{\"a\":1,\"b\":1}" :> "4dad51ac41eb73862fce375fae85ba13711fd19f1b26d8e4b1f9fa405c3d5adf")
  @@ ("{\"a\":1,\"b\":\"v\"}" :> "b11f0a96aba15cfd4b53288f81c4bd4175b070ff9cdf79a434c7654b870cdf0e")
  @@ ("{\"a\":1,\"b\":{}}" :> "3aec7defb6974917f01fb8ad7560ebe1fc433ed0ea1dd45984d6ef8422946e0d")
  @@ ("{\"a\":\"v\",\"b\":1}" :> "7e63eded92cf8fbe9f6fe32b0ea740155c81c44072203a0bb28657a870898f54")
  @@ ("{\"a\":\"v\",\"b\":\"v\"}" :> "7ca88c03c9fe0d53b5b586af4620deab82be67e1c7f0873eb27ffe648205a959")
  @@ ("{\"a\":\"v\",\"b\":{}}" :> "79533abe6f7c311e37953113b842d36b1619b3b7177a822cf9ae06662bd9a929")
  @@ ("{\"a\":{},\"b\":1}" :> "0f9bf913e78082e66a60e55fabba340f4f45752b46cd7ee87abb81fc3f713084")
  @@ ("{\"a\":{},\"b\":\"v\"}" :> "94b5efdad3d4a7063760190d328a61f209208cb62e943272bb819b85ed348b7b")
  @@ ("{\"a\":{},\"b\":{}}" :> "346bacc8b8de9f6d8bf1d0f47846692fa571658eb9a6ac2008e8e6628a090fc9")
  @@ ("{\"b\":1,\"a\":1}" :> "d347334b81cc0a6a99a8242e54b2aef661ebd3ea2ea673ef6690734c559a08e0")
  @@ ("{\"b\":1,\"a\":\"v\"}" :> "7ee57b69f71f6c3933ddc70a9d2416505c9308910eee81d1b064719d5c9315db")
  @@ ("{\"b\":1,\"a\":{}}" :> "8d8967a99cf85fc4022c1ce54d6ec014d47978a085d5942223ba936f7c404cbb")
  @@ ("{\"b\":\"v\",\"a\":1}" :> "811036723a47d9f4bd9c21af0e5b307d2b88e875f58bf832d04244ec03992ab2")
  @@ ("{\"b\":\"v\",\"a\":\"v\"}" :> "fde622551fbf99be6081d88e343e40c9d560d9f47a527a323b0acd5fb79ae2a9")
  @@ ("{\"b\":\"v\",\"a\":{}}" :> "86cb6d18ea31525d2b335b0e55c41e1fc3a33cf20dc498a2cf1d434a2662a227")
  @@ ("{\"b\":{},\"a\":1}" :> "594cb1dbb7c1efe1398ae81b11677bb6792033985592915fa6fcc9608454c504")
  @@ ("{\"b\":{},\"a\":\"v\"}" :> "a9ef5ff84807c8faa7a4eff2128d12ce84598711aa035e87b93955bd62a46ff1")
  @@ ("{\"b\":{},\"a\":{}}" :> "c5dbfa2474054c86f26b845dbb51155a09ea4fe3d3f29c27b0e4c160d53a099a")
  @@ ("{\"a\":{\"a\":{\"a\":1}}}" :> "0d386f53413e5c91c9f82c20cfdaa1f563d3878676ec8508f7bc001bcabd536a")
  @@ ("{\"a\":{\"a\":{\"a\":\"v\"}}}" :> "10a7785790787bc10fc6d54dd929dda80952edc8c690566d33689434aba38f59")
  @@ ("{\"a\":{\"a\":{\"a\":{}}}}" :> "4a88862afad0dd2a632f34fb356d3d9fa7e66837f6e7e1b76114d29c5be0b63f")
  @@ ("{\"a\":{\"a\":{\"b\":1}}}" :> "301c6d65bd2c4c942bd900c8edd36c0496352fc95f48dbbfc2e1420e113fa6d2")
  @@ ("{\"a\":{\"a\":{\"b\":\"v\"}}}" :> "1c25953645ed8fd24a4e601458bc5ab6c046b73281f9c8243f92c56e88a3a48f")
  @@ ("{\"a\":{\"a\":{\"b\":{}}}}" :> "06dd23e317a21afb0008f1121050a6e8814e8d9e817b86c76e70cc46ad638f3a")
  @@ ("{\"a\":{\"b\":{\"a\":1}}}" :> "6addef43f547e06472225f75bfdada92c62f8ef61b28a7a7a213168007befb67")
  @@ ("{\"a\":{\"b\":{\"a\":\"v\"}}}" :> "c74f6555fff3e6d3a90ed6cc4c4c0209fd21435602d62d3f1ea5f7da340f3a35")
  @@ ("{\"a\":{\"b\":{\"a\":{}}}}" :> "11b8741bf7a4a790bddb33a6e307d95c5e1f58f0ea4e29b467c2c30b6d4cb2e9")
  @@ ("{\"a\":{\"b\":{\"b\":1}}}" :> "c1620bfdd4810bcbd15689dfaba061b5ff35edb5930c7239e5f6bcb2c0bfd527")
  @@ ("{\"a\":{\"b\":{\"b\":\"v\"}}}" :> "61e415f11d37b2c2b673b523d5f87ff4ea916087106e62e4460098dfc9e66e60")
  @@ ("{\"a\":{\"b\":{\"b\":{}}}}" :> "5ee1dffc3756bfafdc9ea233b719820acfe5b2e6f956d6dacf5763b4c46fab61")
  @@ ("{\"a\":{\"a\":1,\"b\":1}}" :> "e676f773a15e6a23408987bd85676126c1d228378f22a938a5efc0c594ed7ec3")
  @@ ("{\"a\":{\"a\":1,\"b\":\"v\"}}" :> "74b7880a345eac5bbcf4feb871644b385e8571aaccdcfeb77bffbe9ec326b162")
  @@ ("{\"a\":{\"a\":1,\"b\":{}}}" :> "a378a83cb955b47bb00c12371d62fcfe0eb14a41535d1d95c297c874f45d17c9")
  @@ ("{\"a\":{\"a\":\"v\",\"b\":1}}" :> "73c2333ccc289e07ec3ff6c23e0bdd6aa787b0a697a04cbf183aaf857e41c8c8")
  @@ ("{\"a\":{\"a\":\"v\",\"b\":\"v\"}}" :> "aba6aec9122bc62c05dfdf70862baf0fb952ce2a792cb2b4ca31dc2bdff3877f")
  @@ ("{\"a\":{\"a\":\"v\",\"b\":{}}}" :> "713bac15979117ab052a0feb96c245fbefd25546d88b16585730f642fc02f9a4")
  @@ ("{\"a\":{\"a\":{},\"b\":1}}" :> "c619090eb30ac05e2b411a8ce2bb0b0a69a153c66e64aec132ed68f11fc37de1")
  @@ ("{\"a\":{\"a\":{},\"b\":\"v\"}}" :> "db0beb4f6d694f1523f4c20029ca408f8b8169e9a98b8f7280de6636599a77fc")
  @@ ("{\"a\":{\"a\":{},\"b\":{}}}" :> "b890953cae6807dee971e2908c7a90728b9f363dccaf59d3619c3044fd45b5d1")
  @@ ("{\"a\":{\"b\":1,\"a\":1}}" :> "fa6750f1f30f85515d1de3a694ab27fb9a5eec5cd9919801ddf311b72cbfd83e")
  @@ ("{\"a\":{\"b\":1,\"a\":\"v\"}}" :> "07214a2bddd904a5dd7f40d67801134e5abb3d450e140fccbc50b1d60f366fbd")
  @@ ("{\"a\":{\"b\":1,\"a\":{}}}" :> "2d6d42537b1f0809dd7d4321a19a1bc5aa316cdbd85b3b4539f4883929a481b6")
  @@ ("{\"a\":{\"b\":\"v\",\"a\":1}}" :> "4dff8c7e5bc5acf04b3db4c2e517d8a59367eb21e5a3ad9893de3b89178ff14d")
  @@ ("{\"a\":{\"b\":\"v\",\"a\":\"v\"}}" :> "f42a8a4ad3dfe211e924d1ff7715aa40d0437fa38d419825cbadf53310dfdd67")
  @@ ("{\"a\":{\"b\":\"v\",\"a\":{}}}" :> "43260844cf739d2b2020023d33593a6f1cc383404545434580450059f957a3fe")
  @@ ("{\"a\":{\"b\":{},\"a\":1}}" :> "1f78ae1c3b5a780c021985077f9d4db3e70d72a1fec52bcac663cc77c4568908")
  @@ ("{\"a\":{\"b\":{},\"a\":\"v\"}}" :> "76851113d307041c860f388be2d878d041cf7aa0c40eec038115a21b6c1243f1")
  @@ ("{\"a\":{\"b\":{},\"a\":{}}}" :> "ede9ca7c262e8a5d622b80981c4136c223984aebb130b8d830d1dbf6ff7ff477")
  @@ ("{\"b\":{\"a\":{\"a\":1}}}" :> "f66696eafe9aadfe820ee826c9719580e90a862799d8cfb81678454a1f352949")
  @@ ("{\"b\":{\"a\":{\"a\":\"v\"}}}" :> "ca40d62a3e5267049d5ea87eb9e98ee4d16eefe284aaf394c33d6f8152cbacb9")
  @@ ("{\"b\":{\"a\":{\"a\":{}}}}" :> "fd569b512f3a17ba7bd02a36096ca462192ad05c868841962caf16e73a6a10b8")
  @@ ("{\"b\":{\"a\":{\"b\":1}}}" :> "de3523676dc795cc4b421ec9b8b86f3f3509f7d16512ed20fac63e3303388986")
  @@ ("{\"b\":{\"a\":{\"b\":\"v\"}}}" :> "0a032a798acaf33cb3ec29f0bfd9114f4d43228da43b8c3a30e06d96de0bb0b2")
  @@ ("{\"b\":{\"a\":{\"b\":{}}}}" :> "7290832dc20f7f8a3d084f215727e596e4155421dd139eaf3806b9118fa7adf6")
  @@ ("{\"b\":{\"b\":{\"a\":1}}}" :> "73cf62f0ea2318aaca2897229612d886e899b5112cda5496e6f87176204e08b2")
  @@ ("{\"b\":{\"b\":{\"a\":\"v\"}}}" :> "3ca63ac013968cb70b5f63f7e7fc5f6ada5d32ebab8beb9bca9ec50efd2926bc")
  @@ ("{\"b\":{\"b\":{\"a\":{}}}}" :> "5eb4b28a9329d0e83aa1235cd71f8829b4192293370842b85ba49c963f11718f")
  @@ ("{\"b\":{\"b\":{\"b\":1}}}" :> "516b2a88533203b91b0d639a0743e13e8dc428be2d80c990e32859fd020dbd19")
  @@ ("{\"b\":{\"b\":{\"b\":\"v\"}}}" :> "39e4846e0b76dbc1dea04350cdf15ee2d194fdf2381e73d88f82168a306d1045")
  @@ ("{\"b\":{\"b\":{\"b\":{}}}}" :> "e0bbdb6438cf609ca0a330cf975d649e4647bd2e8741fe07d1a9aa1a58d84603")
  @@ ("{\"b\":{\"a\":1,\"b\":1}}" :> "7f061ea897615797b93979ef15d6317c396f837f1626c9cdb0c02e30afb0af19")
  @@ ("{\"b\":{\"a\":1,\"b\":\"v\"}}" :> "14468a40d337167902e90c99eb953e16bdfc698bb31685fa65c9e9d6b7a3364b")
  @@ ("{\"b\":{\"a\":1,\"b\":{}}}" :> "9f873117959b46f6f7387a4aabf20faae0dee9fc7b1749607eb0c7f247df02f7")
  @@ ("{\"b\":{\"a\":\"v\",\"b\":1}}" :> "f282661dbfb9ca885b9100d5a484ab7d03737a77229431a5892c5da314c86629")
  @@ ("{\"b\":{\"a\":\"v\",\"b\":\"v\"}}" :> "8c9e7d4da8038265cc14a22b75f946a89f7f80b6a1c7cc6229c4f517f4f22e8f")
  @@ ("{\"b\":{\"a\":\"v\",\"b\":{}}}" :> "dfb32b4c8d14c335c6d89c78d461fd3f7aa187a4046f19815c1952f8dd6dfb7d")
  @@ ("{\"b\":{\"a\":{},\"b\":1}}" :> "2944661f533be519251928a7e452993d035323e3749cde3b496a1d199f35ce0a")
  @@ ("{\"b\":{\"a\":{},\"b\":\"v\"}}" :> "a610864951d89667c73cf2f5bfc47e8e85d7c29a9c26f9231edf9e079954b164")
  @@ ("{\"b\":{\"a\":{},\"b\":{}}}" :> "5afb444dcbef268e1917482dc9d46c8826800af01fbb8ca022b38c03829ce24f")
  @@ ("{\"b\":{\"b\":1,\"a\":1}}" :> "0e1d1c2bbeac44c215532cde168078d78b68edc151272ee246c54a2d1c03d3dd")
  @@ ("{\"b\":{\"b\":1,\"a\":\"v\"}}" :> "1b43048b92025eb345ef904eab8969c2ed7ef231b49933d7c8abd3b7d5555e9f")
  @@ ("{\"b\":{\"b\":1,\"a\":{}}}" :> "32d3511d5415e4106f48b6e3bb9eadaf6907b867ffd148712b55ba56b3ef2303")
  @@ ("{\"b\":{\"b\":\"v\",\"a\":1}}" :> "eb896551bdeb224005fd951dc39318ee7d147097f58e922934137cbd532849a9")
  @@ ("{\"b\":{\"b\":\"v\",\"a\":\"v\"}}" :> "66409b14d036b7e4a9894498474764d4b7fc7de2d18cf0c9af9d6609b918f3bd")
  @@ ("{\"b\":{\"b\":\"v\",\"a\":{}}}" :> "274d25fd5f14982cd666b3e776013f136b46c7809f83fdd20fd9a5ac79619447")
  @@ ("{\"b\":{\"b\":{},\"a\":1}}" :> "b233148fb483d611e8b89bcd130f6c9d6dab7341e66ca55da7ef94b96efc9e45")

Sha256Digests02 ==
     ("{\"b\":{\"b\":{},\"a\":\"v\"}}" :> "ae5ef91cf5ae9e28328e2c904b6d9b05bd1b6cc8f51f0e744abe44780bc2de66")
  @@ ("{\"b\":{\"b\":{},\"a\":{}}}" :> "d2a4ee10933081d079d2a489342f246ef26e4587f6fe8b6bb0176fa44f02d639")
  @@ ("{\"a\":1,\"b\":{\"a\":1}}" :> "fbc9d38852fcf72ae4e54213568c8f77c90f829bd08a782368d083f81c190dbd")
  @@ ("{\"a\":1,\"b\":{\"a\":\"v\"}}" :> "3eaefa97c4c751e602e7491ccbbb685c42e9512a79089f94a23c6f184c1bbe82")
  @@ ("{\"a\":1,\"b\":{\"a\":{}}}" :> "4d61d9f17d0e33e2c16d7e1e9f69772d61d77846ff9d2fe7ab93bcfb16f72e94")
  @@ ("{\"a\":1,\"b\":{\"b\":1}}" :> "9178777aefe5709dd4114214e105f92008b68327882c07d57960e64a8ab1904f")
  @@ ("{\"a\":1,\"b\":{\"b\":\"v\"}}" :> "c5dcc57cdb002c396e7dbe883731b101925fe3a364a04b7eb3758dd9be0dab01")
  @@ ("{\"a\":1,\"b\":{\"b\":{}}}" :> "c41fce2e4598e7f35599fc405055f4bdcd19e63add3ecd3d1d5cb551cc0ad187")
  @@ ("{\"a\":\"v\",\"b\":{\"a\":1}}" :> "00b49a1b178c85f9c869618123c8b72639fa8d09a05721d1a7daea7a32c6c2d4")
  @@ ("{\"a\":\"v\",\"b\":{\"a\":\"v\"}}" :> "a257718efd1dbc760fd3b0480fe221116926b9999a3082b48c3fd3782491b60b")
  @@ ("{\"a\":\"v\",\"b\":{\"a\":{}}}" :> "0085262ddfe1f60208056ec29bb4ea74f9c1b314bd1cd05fa316c8125e608fdf")
  @@ ("{\"a\":\"v\",\"b\":{\"b\":1}}" :> "5b0af8321c9ed16a95e8bce684f9c1d67f0b149023c594eba4eb992ecae4a929")
  @@ ("{\"a\":\"v\",\"b\":{\"b\":\"v\"}}" :> "5096026f3dbde366963cb81581b60bd9b4f928129b31d7a1ba3fa35e2cf7362a")
  @@ ("{\"a\":\"v\",\"b\":{\"b\":{}}}" :> "9edf8c28a05bdfa2661127f85debe4adad0502eb9dc5d0046d09a38bff40f332")
  @@ ("{\"a\":{},\"b\":{\"a\":1}}" :> "5f4cf458e3bb87e4aa151e041f4e99a5c2a17f8e920163adc65430368e2ae324")
  @@ ("{\"a\":{},\"b\":{\"a\":\"v\"}}" :> "09257cb92c5ae434a5085e0dce822f30a80b2006012c321ca1b38cd1193c0ca7")
  @@ ("{\"a\":{},\"b\":{\"a\":{}}}" :> "433f5260e73d87b4d064cf22a04a34b36c8a88533e19ab2e9cc79b8d52bbee9a")
  @@ ("{\"a\":{},\"b\":{\"b\":1}}" :> "2d55f9b83e26e284a0119f478c961ea948f44363317131a72215d32a26749c9d")
  @@ ("{\"a\":{},\"b\":{\"b\":\"v\"}}" :> "af5e65788474129e14af676f9b6f41a03ffaedee30ade295068a6992e841ea4a")
  @@ ("{\"a\":{},\"b\":{\"b\":{}}}" :> "e33e75088f3c7cade30d9fdb4099f3e456df119dcaf64783eecaf9c8727033d2")
  @@ ("{\"a\":{\"a\":1},\"b\":1}" :> "49a900d1e77b54a6d8c8f5527d17ac7022de57e313b9982f2d71203a30bd23b0")
  @@ ("{\"b\":1,\"a\":{\"a\":1}}" :> "89b86f47d4ff1fe311722d94e1452b9970cdcbaeacb221aaed03d3ba03b7f4f6")
  @@ ("{\"a\":{\"a\":\"v\"},\"b\":1}" :> "c4fbeb7c02e9dfba38b39bee207103bea471925c1bfe61f83cf2cf54a442f6bc")
  @@ ("{\"b\":1,\"a\":{\"a\":\"v\"}}" :> "528471cb180938834fc3ab50a90bd0333453a5a179bb1a5b5dcd666a2958e758")
  @@ ("{\"a\":{\"a\":{}},\"b\":1}" :> "f84f1d7d1b0ab90d0e78819096b113a643aacc7dc5dc38234ebcdf9684947f9d")
  @@ ("{\"b\":1,\"a\":{\"a\":{}}}" :> "9eff7097a76be9b0f002d6a51a53d692f81879f33e09826bebbb13bc86c69587")
  @@ ("{\"a\":{\"b\":1},\"b\":1}" :> "7e1e26ab12fd6f992674a409a17e7db251dd168fd2925d4958867a2fc57c1b20")
  @@ ("{\"b\":1,\"a\":{\"b\":1}}" :> "0a50286f6a0926de22fac885e333e4078dcd838fdca3fcba9709e97770d01baa")
  @@ ("{\"a\":{\"b\":\"v\"},\"b\":1}" :> "f05e1d772a1199f64ef1b1fc63a0db926ba2e7ade592b32d49862d34837926b7")
  @@ ("{\"b\":1,\"a\":{\"b\":\"v\"}}" :> "e05afad196642c15796b309ac352e31bb02352549630d340720dda26a13dba72")
  @@ ("{\"a\":{\"b\":{}},\"b\":1}" :> "dfd511d9d77ab95a3a2e86499e307977694982cbb810b3f69080c92eef2a84b3")
  @@ ("{\"b\":1,\"a\":{\"b\":{}}}" :> "f5657506fb7b9df3046f778be2e96f63186a0d12ce87b4be7cd19dd9a82fae00")
  @@ ("{\"a\":{\"a\":1},\"b\":\"v\"}" :> "1adf70714b06677b9ba92abd0daa507743c5c8a89ba5059c9310bab223d0f484")
  @@ ("{\"b\":\"v\",\"a\":{\"a\":1}}" :> "a62bec4bf6c3a25d057c7c5a33940ddf654960e6efe28e5d66da480ef197b85c")
  @@ ("{\"a\":{\"a\":\"v\"},\"b\":\"v\"}" :> "c78657d006ba854347b587fc7654d5bf6b58499e7ae6ff51ef1dc554a5a262fb")
  @@ ("{\"b\":\"v\",\"a\":{\"a\":\"v\"}}" :> "489257e959aeaa8abc1e12357fc58d8e1003534a57e2e40789256a4ae104294f")
  @@ ("{\"a\":{\"a\":{}},\"b\":\"v\"}" :> "cb5f69b5c2d9939fde02413df0398bd0c853cb2716fc5ec2bd8fbf4018475780")
  @@ ("{\"b\":\"v\",\"a\":{\"a\":{}}}" :> "e2c3efb21852d052a5e21bde22919a23eb138fd516aebe99b0728b20b63ac27f")
  @@ ("{\"a\":{\"b\":1},\"b\":\"v\"}" :> "0b8eee65429bcddbb1972c4b7fdb332a43a2709e74b25eab97e56b60eaa6412f")
  @@ ("{\"b\":\"v\",\"a\":{\"b\":1}}" :> "e4bb94ad5fe73d16724ce88b802413c9e0bad31ebaee520a56cd0bfaec25edf0")
  @@ ("{\"a\":{\"b\":\"v\"},\"b\":\"v\"}" :> "68db2861efdb686b835285451e850750303d7e3c74e26e70bc00412b383c13d2")
  @@ ("{\"b\":\"v\",\"a\":{\"b\":\"v\"}}" :> "ecd70d88f19e39486f64b80d7b8668057bc759e92ea2c875d9933aa8845d0398")
  @@ ("{\"a\":{\"b\":{}},\"b\":\"v\"}" :> "f3c94f33b8b965f153b2fa20d64d3b1f5a2895c4442cd77d25428f65daf6ca10")
  @@ ("{\"b\":\"v\",\"a\":{\"b\":{}}}" :> "436889c0dd6ba09f95a2ee7a54eaf54803393f91ac9544fd38cae3b1d180ae69")
  @@ ("{\"a\":{\"a\":1},\"b\":{}}" :> "fd1ee2d43d48aab51c30cceb5bddbf7ac6c37e604734d54205d1e7a6caafef96")
  @@ ("{\"b\":{},\"a\":{\"a\":1}}" :> "eed715c443d21025ff7f26504bc096c6fd5511767a6a372dfba969aa439188e9")
  @@ ("{\"a\":{\"a\":\"v\"},\"b\":{}}" :> "f6314278e51a31880c0a8e75aea27ec9070346f3e37030e45c560cb2922afa86")
  @@ ("{\"b\":{},\"a\":{\"a\":\"v\"}}" :> "01ab9ccb2f1b6d0051774a4e0efcc0503452cc163a89a724e1f638ed712510b1")
  @@ ("{\"a\":{\"a\":{}},\"b\":{}}" :> "b1aa974dee620ef67fe6ca2d81e6228f48d138eafde351e1248c3d6b95733a68")
  @@ ("{\"b\":{},\"a\":{\"a\":{}}}" :> "5056ae989f8fc3ec1d105cb9a37f4bd13fa46e05008bbd6f1df910ce35bff2dc")
  @@ ("{\"a\":{\"b\":1},\"b\":{}}" :> "b8b34c692698d13ee72b8ff078af093358b22420b8d2493d8581caf1b2919746")
  @@ ("{\"b\":{},\"a\":{\"b\":1}}" :> "3013576ee46ee4ec808b8ec54271c05388e8810d78831458b0c2c42f95986325")
  @@ ("{\"a\":{\"b\":\"v\"},\"b\":{}}" :> "7b043d796630a1316437b9c61d38faaf066807710687d0ad4dcddb09271ee9a4")
  @@ ("{\"b\":{},\"a\":{\"b\":\"v\"}}" :> "8e409ee5d939fb68c28e724c439a5591de2e194774fa122fd7ef9ee71365cc0a")
  @@ ("{\"a\":{\"b\":{}},\"b\":{}}" :> "fff2bc5c1593c4b02496b14c1c074badfd320ee0fc844a39c2b10e5ad459da34")
  @@ ("{\"b\":{},\"a\":{\"b\":{}}}" :> "04b77ed7e66de14b8baee8011113ee3345bc20cba4e70fed9984b63bc25c1bfb")
  @@ ("{\"b\":{\"a\":1},\"a\":1}" :> "b6713930835f44a51c5570cc4871c777afd13c9a943ceb1c2363511323cbe3ac")
  @@ ("{\"b\":{\"a\":1},\"a\":\"v\"}" :> "04e9180fba1021b2e63131a81a75cd0dc2d22ac9822f1f6a6aae6cbcc2ee5c8f")
  @@ ("{\"b\":{\"a\":1},\"a\":{}}" :> "98ccc7ebb1ab0b2fe6a3d867165c827f965921c4bed2689850cb2533d14a9976")
  @@ ("{\"b\":{\"a\":\"v\"},\"a\":1}" :> "596940875f1ccf3f1ff5290678a0761a4def210359ff075338390458bcd2b974")
  @@ ("{\"b\":{\"a\":\"v\"},\"a\":\"v\"}" :> "98718335c6813f13044fd2fe84984555c6334a9d5bc61a26b94bbb1e5b2ec0c7")
  @@ ("{\"b\":{\"a\":\"v\"},\"a\":{}}" :> "6316a4a3b1e94dccdcfdb3011aaaa43cd9c9ccef8c0df56fa1ab8dd10d67ba4d")
  @@ ("{\"b\":{\"a\":{}},\"a\":1}" :> "e15a8e9ad5873fdecba1dc5e0f76517fb45434368907d5c57719983f22a2a031")
  @@ ("{\"b\":{\"a\":{}},\"a\":\"v\"}" :> "23a20f07c1ab0fbf53160ed406941013e4f4657054754dc55f07efec688fb1ef")
  @@ ("{\"b\":{\"a\":{}},\"a\":{}}" :> "d2572b8c5f4b65b56ef590025cb45e95bb63379c743786941e8a526e049d33f0")
  @@ ("{\"b\":{\"b\":1},\"a\":1}" :> "964cb282cf2c967dc2ce63c5c49ad5e11c2a413f42d01212ad06f328e5bd41f4")
  @@ ("{\"b\":{\"b\":1},\"a\":\"v\"}" :> "cf1e4fa823500119d5d2d0c43037d5dc6f6e4b5ac01b2b2e32f7e412921340a7")
  @@ ("{\"b\":{\"b\":1},\"a\":{}}" :> "04f496dafb56f50fb00d99c45c8fcdb8f7e5109937129f3d4026f6c627c58066")
  @@ ("{\"b\":{\"b\":\"v\"},\"a\":1}" :> "d67491a56dfea280e08131f17a841f6782d098f5c0e5a258c03951c7df5b80fe")
  @@ ("{\"b\":{\"b\":\"v\"},\"a\":\"v\"}" :> "981ed673ddba8760eddc5c1abff824810373b1756363ca85b2f907c2d50adcaf")
  @@ ("{\"b\":{\"b\":\"v\"},\"a\":{}}" :> "45cb1296cb5b07fea8ee8182d4df6797b08ec21cf51184896f0ed4034e9141b7")
  @@ ("{\"b\":{\"b\":{}},\"a\":1}" :> "34ec4827df9e276b7a1a5ae04fd26c53cf60d6a88beabbe12df847ecaf17bcb2")
  @@ ("{\"b\":{\"b\":{}},\"a\":\"v\"}" :> "c0bf15ace05dd628be07b506c8f2c7480e243ba1fdc3529e9d608f168717882d")
  @@ ("{\"b\":{\"b\":{}},\"a\":{}}" :> "19ca1353ca4355b529cbc65dd4d33d63350718c5f2771c01877c2281299a89a4")
  @@ ("{\"a\":{\"a\":{\"a\":{\"a\":1}}}}" :> "e7c545f2b188e2d7f9d924219880e008b07164cdacd043d2f5e88acc593e0212")
  @@ ("{\"a\":{\"a\":{\"a\":{\"a\":\"v\"}}}}" :> "74532fac0151d57667797a76829e12873e9326b93ec6e04b6af1fb4e5a87ec6b")
  @@ ("{\"a\":{\"a\":{\"a\":{\"a\":{}}}}}" :> "eb6c1005d238394d0e470756c17eee6b07270b50c3fa849c4658900c23a97f51")
  @@ ("{\"a\":{\"a\":{\"a\":{\"b\":1}}}}" :> "6309ef5d4933a8ab4dbcd5b67c4d699250d1ca59b14d2c010598ce1d92e749d7")
  @@ ("{\"a\":{\"a\":{\"a\":{\"b\":\"v\"}}}}" :> "e4d9f2d478daf3a9aee58ddb4e7b44c27401654fb6e323a0d977789f731b53e0")
  @@ ("{\"a\":{\"a\":{\"a\":{\"b\":{}}}}}" :> "5f2fb0f5b4ac4d9ff40afcc3ea4e0657569daa0e7fb39c7873aebf1babf9b45a")
  @@ ("{\"a\":{\"a\":{\"b\":{\"a\":1}}}}" :> "2d224d7fe11693fcc039114579fb99f23398b75d13d12f48854fb26c5502d73c")
  @@ ("{\"a\":{\"a\":{\"b\":{\"a\":\"v\"}}}}" :> "57997842e972dce11c24f2034f33415cf9664fa82ada9b806747394904d89613")
  @@ ("{\"a\":{\"a\":{\"b\":{\"a\":{}}}}}" :> "3e4d0c4e83e5ec3a0b5a261c89798cf1e75fcae37081b444727ac17e15ede280")
  @@ ("{\"a\":{\"a\":{\"b\":{\"b\":1}}}}" :> "44eea129330d9d6ce4025219dfbe64f1d70c26289a63419a695e95ca3e2fc427")
  @@ ("{\"a\":{\"a\":{\"b\":{\"b\":\"v\"}}}}" :> "d510c73bba6d81737472d99b72fd7d51b11c3f3ebce014e815fc5b6690a683c6")
  @@ ("{\"a\":{\"a\":{\"b\":{\"b\":{}}}}}" :> "126991d8dee0396bf18ac34383ae65a021c9fa0adbeec6e9674ee87f8b03a527")
  @@ ("{\"a\":{\"a\":{\"a\":1,\"b\":1}}}" :> "8dd8193136a163087c35eac14598af4a99762b99d6b7329bff8fd81f218ed7b5")
  @@ ("{\"a\":{\"a\":{\"a\":1,\"b\":\"v\"}}}" :> "fe3e89744eedbe775f1a72b534600b21712042adfe41c529ac6083720392d79c")
  @@ ("{\"a\":{\"a\":{\"a\":1,\"b\":{}}}}" :> "cc6b8c1526c390ce63a6d18725578d1e050b0dd2cef0fe1dff733280aca40658")
  @@ ("{\"a\":{\"a\":{\"a\":\"v\",\"b\":1}}}" :> "bd8f058ff217a711256ca2c56bf31ebfe3e542d5fdd5e9e176893c3bb6253052")
  @@ ("{\"a\":{\"a\":{\"a\":\"v\",\"b\":\"v\"}}}" :> "18a5fe874fdb82235b1d5ab5ae4cb06c50e59cdf6163e14f4fa89d107bca2beb")
  @@ ("{\"a\":{\"a\":{\"a\":\"v\",\"b\":{}}}}" :> "433ba3c87ba308d3f62ba88949be4da3d2fe6e393a944be2d56867757fd9d6c9")
  @@ ("{\"a\":{\"a\":{\"a\":{},\"b\":1}}}" :> "f1b78ff687cc9de5a3287f42a98fa6d3c54d9b8a8a3c0cdf6fbf1392005eb413")
  @@ ("{\"a\":{\"a\":{\"a\":{},\"b\":\"v\"}}}" :> "59362e0b90d8f905134d5b8b7157a23a690671b207bab0db9208e36699fe12e7")
  @@ ("{\"a\":{\"a\":{\"a\":{},\"b\":{}}}}" :> "a230206ea6ff3e88e3740ee8decaf79ab3aec3ec05e6864a64166dccddb8865a")
  @@ ("{\"a\":{\"a\":{\"b\":1,\"a\":1}}}" :> "e8edfd7c594b3b6026dd2c4038dae525b2b7a4148985d6ad30b3dfb9288f30a3")
  @@ ("{\"a\":{\"a\":{\"b\":1,\"a\":\"v\"}}}" :> "b0ed16baec0fcbeb0dbee9cf423ee273af6a9c26fe2eef89a6e02393702b3a06")
  @@ ("{\"a\":{\"a\":{\"b\":1,\"a\":{}}}}" :> "8e781b8775b764e88c4d0574424f95b451d383b177bb8ee20da197511a8eaaf5")
  @@ ("{\"a\":{\"a\":{\"b\":\"v\",\"a\":1}}}" :> "3eead36c221129cf0b0a8117b9a2372269e900419a62fc7711612758274a64ca")
  @@ ("{\"a\":{\"a\":{\"b\":\"v\",\"a\":\"v\"}}}" :> "c757b18c9e7e937a587ec601e4ffae3e9b15df2112cf181761570cad26339c18")

Sha256Digests03 ==
     ("{\"a\":{\"a\":{\"b\":\"v\",\"a\":{}}}}" :> "cfc3d77769630c67902ece6098be888eea715fbbd139762126249409152ede0b")
  @@ ("{\"a\":{\"a\":{\"b\":{},\"a\":1}}}" :> "84e21a40ff01fdae349bd2ec57e8222ad3ead970d660797df8eb8d2df7558517")
  @@ ("{\"a\":{\"a\":{\"b\":{},\"a\":\"v\"}}}" :> "212e947377d96f9a70379570901381c1cf5ea87fdd556dd4270b7821f0598599")
  @@ ("{\"a\":{\"a\":{\"b\":{},\"a\":{}}}}" :> "b5f29040fe1f7eafc173c363b60e14a6496a9267f7a5171249cf248e41cfae28")
  @@ ("{\"a\":{\"b\":{\"a\":{\"a\":1}}}}" :> "5445a4d33b64e6046fd5f99b82e2e78c553e966d87437a7278319dce6a8fdf12")
  @@ ("{\"a\":{\"b\":{\"a\":{\"a\":\"v\"}}}}" :> "1c199a10c0b99d0051d4a36e673d5249d7cb10776a16327db34830d6e268b8cc")
  @@ ("{\"a\":{\"b\":{\"a\":{\"a\":{}}}}}" :> "142a0c57b0e96d317a35ad40e7a69b1277de91fb67c0efb05ba4390fe90e24cf")
  @@ ("{\"a\":{\"b\":{\"a\":{\"b\":1}}}}" :> "80eecb3ca799dec1a9de25f7c228d07d8c6ca278f096c097bf6475e9efa88b1f")
  @@ ("{\"a\":{\"b\":{\"a\":{\"b\":\"v\"}}}}" :> "6bf0ed8f506463a6f012d026e2e082159442c277ae0d02c9f805fde800753a4a")
  @@ ("{\"a\":{\"b\":{\"a\":{\"b\":{}}}}}" :> "700662017403c79f88af3b10e552e29433c37471155d35369156b08502389843")
  @@ ("{\"a\":{\"b\":{\"b\":{\"a\":1}}}}" :> "d6bfad1dc9159bb1d3cc67f2c3936b4848f0b395eac5d3f01dcdbd5ba1b16c17")
  @@ ("{\"a\":{\"b\":{\"b\":{\"a\":\"v\"}}}}" :> "43fd235fa9ab3dd89db444ea4996df791d5bb092e7c02c4c589886515167f88e")
  @@ ("{\"a\":{\"b\":{\"b\":{\"a\":{}}}}}" :> "902a542699cac183b5b870d66ca71e71f431090c521f9f010d0045c27897b7a5")
  @@ ("{\"a\":{\"b\":{\"b\":{\"b\":1}}}}" :> "2e0cf20c9cef8b782ef492e7377fa5ec63e863433eecd791fc94aee214b28728")
  @@ ("{\"a\":{\"b\":{\"b\":{\"b\":\"v\"}}}}" :> "fae32097ee051079c96ab15a09f23e60b895f2580fd2a2b3d6a312d21bda8f74")
  @@ ("{\"a\":{\"b\":{\"b\":{\"b\":{}}}}}" :> "090a69b2b494e340f1565c56b8fde64dcc2d2935fa24a64732453e33b30f499d")
  @@ ("{\"a\":{\"b\":{\"a\":1,\"b\":1}}}" :> "1ca53bc97ed8a7b5fe6fe3f79c8718ef03623cb4ff62575cb289edd6d254e02f")
  @@ ("{\"a\":{\"b\":{\"a\":1,\"b\":\"v\"}}}" :> "d220a8f36df0924091038c69a4b23074dbf3b321407172bf41a145b831b39126")
  @@ ("{\"a\":{\"b\":{\"a\":1,\"b\":{}}}}" :> "ef9fe6c168395dc9ff6a4b7a7c2fa118fa8d86ebca6c57bea838875a43926c11")
  @@ ("{\"a\":{\"b\":{\"a\":\"v\",\"b\":1}}}" :> "43b752548131a609c2540422d3a67a833821abfb6e443901e89bb4d2442f6bca")
  @@ ("{\"a\":{\"b\":{\"a\":\"v\",\"b\":\"v\"}}}" :> "b0d6558294a6bc21d57a7a4e0e729c9d5d5e80899319be5adae8a04e9532a55d")
  @@ ("{\"a\":{\"b\":{\"a\":\"v\",\"b\":{}}}}" :> "73385b266e4c8b9379e720ffc002521009446caed12e4bd674636b282293c0fb")
  @@ ("{\"a\":{\"b\":{\"a\":{},\"b\":1}}}" :> "cc9c2d1e9149476531e62add724f9c276429af4320690a54161726b3ed38d1b4")
  @@ ("{\"a\":{\"b\":{\"a\":{},\"b\":\"v\"}}}" :> "3a16d4d27a2375a9a95a1aa4433400e05ef28fa60901e56f3d34d97c42580111")
  @@ ("{\"a\":{\"b\":{\"a\":{},\"b\":{}}}}" :> "bb6ace582f726bc221c4d70a264668855189635438c413757460d06cfd6dddc3")
  @@ ("{\"a\":{\"b\":{\"b\":1,\"a\":1}}}" :> "da4dda7e426c791f07de0a96d7e688418d6416892ca4f52290d925fce7530033")
  @@ ("{\"a\":{\"b\":{\"b\":1,\"a\":\"v\"}}}" :> "f601a5167f8c7b092207bd143a22ffcaeadb34de484d021bfe89ebc3834feb2c")
  @@ ("{\"a\":{\"b\":{\"b\":1,\"a\":{}}}}" :> "aaff75bc56b82a4b838fa3efae805444169525ff3a81a9ddeecd88a22f85f12e")
  @@ ("{\"a\":{\"b\":{\"b\":\"v\",\"a\":1}}}" :> "32efcb8a13997ca22de79b3d2e862b1474885d1d3a2f664a0b420d4fcc0b64ad")
  @@ ("{\"a\":{\"b\":{\"b\":\"v\",\"a\":\"v\"}}}" :> "34e408a3669c1b3cf33ef6160ef97e1f32bc0613af94b1dd093c9d0779653b23")
  @@ ("{\"a\":{\"b\":{\"b\":\"v\",\"a\":{}}}}" :> "fe5bb5e53392ac618bc349542dbaad546b9e5b35539d5aa9322fcb2fc4c06bf3")
  @@ ("{\"a\":{\"b\":{\"b\":{},\"a\":1}}}" :> "cc7ba181abfdc871699852fe91e6f6bbc9a44cb58d16008b83496ed17fb56ce6")
  @@ ("{\"a\":{\"b\":{\"b\":{},\"a\":\"v\"}}}" :> "e1a317df86f5fa8221465972f30419137b5b2ac76ca4091dfdad79ab1a823058")
  @@ ("{\"a\":{\"b\":{\"b\":{},\"a\":{}}}}" :> "478ee031d9cd48f25cec02876e7428aa507372f653aa19bada3acc89fc957aca")
  @@ ("{\"a\":{\"a\":1,\"b\":{\"a\":1}}}" :> "92925ff5180187782f39eebc487168bb02f4436c7f8d3512ef8ef375a1968c87")
  @@ ("{\"a\":{\"a\":1,\"b\":{\"a\":\"v\"}}}" :> "dd4e77159682e29b048212517917aa8d42891ab9c3627f1baf2754071c2272d4")
  @@ ("{\"a\":{\"a\":1,\"b\":{\"a\":{}}}}" :> "2feac0851d50304f41768231d06e540d13ca2b8e02dbd88cfa41aafe17104324")
  @@ ("{\"a\":{\"a\":1,\"b\":{\"b\":1}}}" :> "2a82ebd39f49601cc4a62f6a8c21cc580ee51df4f00127ae272307d3c86c3ac5")
  @@ ("{\"a\":{\"a\":1,\"b\":{\"b\":\"v\"}}}" :> "21fb70d7dc9ba551f529b914e1223cbd3a6d7b11e268f07f06288b91c2b65dad")
  @@ ("{\"a\":{\"a\":1,\"b\":{\"b\":{}}}}" :> "98a18430e4f583f45bef5b36ef3a741479013010680ae8a47c569d9ffc459954")
  @@ ("{\"a\":{\"a\":\"v\",\"b\":{\"a\":1}}}" :> "933b5721c6dcc9658ab28251b7a4b344f1b35d76108a3061423d53edcc4fff3d")
  @@ ("{\"a\":{\"a\":\"v\",\"b\":{\"a\":\"v\"}}}" :> "bc0b9e3cad6a45f53dbabb044755d6bda9ee8119c3e6dada1677d5e863e24ed4")
  @@ ("{\"a\":{\"a\":\"v\",\"b\":{\"a\":{}}}}" :> "f637fc570b7528ab627fed01af867f96578690bb73fa4e367911801c9c915716")
  @@ ("{\"a\":{\"a\":\"v\",\"b\":{\"b\":1}}}" :> "92aeb05095d72340fb7703352070a7f63a20b3c0570b28545b1163bfc05f9287")
  @@ ("{\"a\":{\"a\":\"v\",\"b\":{\"b\":\"v\"}}}" :> "4c4e0ab4d0d212b0db50b6a334cb4bf2e6dea7043fc8a11659473a333da0e7c2")
  @@ ("{\"a\":{\"a\":\"v\",\"b\":{\"b\":{}}}}" :> "d3460f8d7d75c8b36e818f70b062897ad72865bfe2d3f2e916da0c04685cceb8")
  @@ ("{\"a\":{\"a\":{},\"b\":{\"a\":1}}}" :> "6c97ca06d87ef0a72ac37b1acc4deab17ff27ac39baacaab20643ec30adfee90")
  @@ ("{\"a\":{\"a\":{},\"b\":{\"a\":\"v\"}}}" :> "0d8840565fcd807a2e38e65e9da8bcac093de453033eee40fd2c6b9fd555fcd3")
  @@ ("{\"a\":{\"a\":{},\"b\":{\"a\":{}}}}" :> "efcd219aa8ec130957ed64f660424be433964c60ee3cdb9bc1d261d282521241")
  @@ ("{\"a\":{\"a\":{},\"b\":{\"b\":1}}}" :> "bd1bd2ae867cd86ae26cd7f2521960c53653e396d1f5c69be467f1319a0a4e04")
  @@ ("{\"a\":{\"a\":{},\"b\":{\"b\":\"v\"}}}" :> "5bd9356a62b12e29f954cadea25a2daa04924e00b78f8b2556973759a75ec380")
  @@ ("{\"a\":{\"a\":{},\"b\":{\"b\":{}}}}" :> "1e64110584982119ffc609fab4efd105d26db14030b8dbf754f3e774f8a8f85f")
  @@ ("{\"a\":{\"a\":{\"a\":1},\"b\":1}}" :> "45b5c305c62fa4ce249866bacccd2d4974d252eeecc2f243967edb8390c87035")
  @@ ("{\"a\":{\"b\":1,\"a\":{\"a\":1}}}" :> "90d4f99c21310bef0329e2f2191804ed8efd28e9989a0a5e06a3698822539858")
  @@ ("{\"a\":{\"a\":{\"a\":\"v\"},\"b\":1}}" :> "cdb24df231aa2b88539b52d84f383a5b7efc5029b91798fccc9353bfa78ba1e4")
  @@ ("{\"a\":{\"b\":1,\"a\":{\"a\":\"v\"}}}" :> "fac0afb7acd6fa77d87d5e4cfae5adfdbc75aac9824f3dad55b07180b34dca5c")
  @@ ("{\"a\":{\"a\":{\"a\":{}},\"b\":1}}" :> "1d053954f495cde832ad468bbb3f3f977216f3464d42ac322e5384ec43fd4bfb")
  @@ ("{\"a\":{\"b\":1,\"a\":{\"a\":{}}}}" :> "3dd52705009521f080d222a61c8f1afc677240452ea867e1e3e88e7c02333a36")
  @@ ("{\"a\":{\"a\":{\"b\":1},\"b\":1}}" :> "cac95afc92c7aeb6c087982553500fd60bdd9846760a2200d5e0d29dced7ec5a")
  @@ ("{\"a\":{\"b\":1,\"a\":{\"b\":1}}}" :> "e6ec7e7de4ec53394b4fbb5627f046d3754534bae214f5fef97c2047e3ba4ba3")
  @@ ("{\"a\":{\"a\":{\"b\":\"v\"},\"b\":1}}" :> "f47cca93505dcfc8ccff4220898d1a8b8963255b919acecd67bc41dab0a087aa")
  @@ ("{\"a\":{\"b\":1,\"a\":{\"b\":\"v\"}}}" :> "57d1acd3e520b8b5486db6aee43b36924d8323b4c439050dea0b4498dc54bc4b")
  @@ ("{\"a\":{\"a\":{\"b\":{}},\"b\":1}}" :> "4fcd8b73d7c35bf26d3a59e7668ccb008ff092bb6922b01cd3c3534368418911")
  @@ ("{\"a\":{\"b\":1,\"a\":{\"b\":{}}}}" :> "68220ca4a0c5eb980f64172d251fce7461e565f56f82a6e4f1915c0b0693f992")
  @@ ("{\"a\":{\"a\":{\"a\":1},\"b\":\"v\"}}" :> "17fa56876d97661a2cb8f52dbc6b3594f1ab975de4bf22d824ff9cb57aff5c42")
  @@ ("{\"a\":{\"b\":\"v\",\"a\":{\"a\":1}}}" :> "0912ceccddab035ee3e5acc853917d4f9c690349b729bf5223c24482b53f5eea")
  @@ ("{\"a\":{\"a\":{\"a\":\"v\"},\"b\":\"v\"}}" :> "896a9e5a6705d5d3f80830bc302c9478d7a9f7e8e49d4103159e0b81cdbbfe13")
  @@ ("{\"a\":{\"b\":\"v\",\"a\":{\"a\":\"v\"}}}" :> "4a624719847a6910b44cac2a99ce9b3db16955bd97d9a4d8feb13b5516016b67")
  @@ ("{\"a\":{\"a\":{\"a\":{}},\"b\":\"v\"}}" :> "be26b8598d31116be70c5bba4165c66c00fd669a49765103384bd3e270f2dc8f")
  @@ ("{\"a\":{\"b\":\"v\",\"a\":{\"a\":{}}}}" :> "8e03b3d5910f6b22dbc3b738e1c9a5ffb934549259f9e0f0b6488d7575f709a4")
  @@ ("{\"a\":{\"a\":{\"b\":1},\"b\":\"v\"}}" :> "5f61cd9ac5c20649b0c447bc3869d7d6a9739bdcd3d2b54061e4e8e9d0454504")
  @@ ("{\"a\":{\"b\":\"v\",\"a\":{\"b\":1}}}" :> "1a9a49ee142d0fab7e5bcae6598186b46435cd00ba1ca54ce2d04ea9718d5019")
  @@ ("{\"a\":{\"a\":{\"b\":\"v\"},\"b\":\"v\"}}" :> "fb527a02e05f521e79dc208084d9e11cad8e311a6f5f9aaf8c02e9035ea19704")
  @@ ("{\"a\":{\"b\":\"v\",\"a\":{\"b\":\"v\"}}}" :> "fbca866816f18ed3114ca1e6baed3f695c824af1f2a0983d74cc6e1dc56df8fe")
  @@ ("{\"a\":{\"a\":{\"b\":{}},\"b\":\"v\"}}" :> "77b644b5a457473f717a46759abc4cb912946611899bb32ad29f810c7cb56902")
  @@ ("{\"a\":{\"b\":\"v\",\"a\":{\"b\":{}}}}" :> "fb4a92b799030a827b6fa01d0122a45ccd10c1130112b1248838cb1afa13d582")
  @@ ("{\"a\":{\"a\":{\"a\":1},\"b\":{}}}" :> "748229559ca5c382411350f29eb0c757c5fdf3d6918972205cf89dd7bd69cb55")
  @@ ("{\"a\":{\"b\":{},\"a\":{\"a\":1}}}" :> "fd390cf8414f67e3b6c2f746c2ee69da8ca03d03b68f3fc214e2e3144dd73f5a")
  @@ ("{\"a\":{\"a\":{\"a\":\"v\"},\"b\":{}}}" :> "76c67bd1e911a0594c3dc14c7790bb5687fd6f4931e87ef507766dc1ab524fd6")
  @@ ("{\"a\":{\"b\":{},\"a\":{\"a\":\"v\"}}}" :> "116546cf31d31dadb2ad421ead1a5eccbc0351c8ae96482af1ecb5557defb314")
  @@ ("{\"a\":{\"a\":{\"a\":{}},\"b\":{}}}" :> "dc298a845eb68954f575e44c7cd0d40568a3103e62b18968007055e59c387e82")
  @@ ("{\"a\":{\"b\":{},\"a\":{\"a\":{}}}}" :> "c3499adc50944f24f30c0b95da6589e0a22fa29937d91d4788c17ed5852a5d85")
  @@ ("{\"a\":{\"a\":{\"b\":1},\"b\":{}}}" :> "72a721341cd9f0885583a1c6a9bcb9f2bd20e06b5c41088ac57b5a947793839e")
  @@ ("{\"a\":{\"b\":{},\"a\":{\"b\":1}}}" :> "2f334d74a605a96cb7e9668ecd5997724d0026decdc6bfa6898e01b2e3f362b2")
  @@ ("{\"a\":{\"a\":{\"b\":\"v\"},\"b\":{}}}" :> "6a4f646acb7d9ae932cf050898aa05209de5fbef0564344d4a3c5ceb2f0a3571")
  @@ ("{\"a\":{\"b\":{},\"a\":{\"b\":\"v\"}}}" :> "5aea3bd59b5e9dcc33999cb96e53b450bc06280163a58974cb4fa9a39a1cf2e8")
  @@ ("{\"a\":{\"a\":{\"b\":{}},\"b\":{}}}" :> "8e1ad90a9e4bd48391f2a37444149fa83b7fa960066e3a9e5472c79c719df0cf")
  @@ ("{\"a\":{\"b\":{},\"a\":{\"b\":{}}}}" :> "bc667673590da7275c58a26b0207413ba79ceb139329a85fb0c1738a5883daf7")
  @@ ("{\"a\":{\"b\":{\"a\":1},\"a\":1}}" :> "3eb5ed226510593df52ac17d147a6b794ccbe6294e42d59a7b7887d2929175ee")
  @@ ("{\"a\":{\"b\":{\"a\":1},\"a\":\"v\"}}" :> "37a3d26f31ace2f7194eb57f2e475ee5f63bdc9cd96ee0d0a8f001111694733d")
  @@ ("{\"a\":{\"b\":{\"a\":1},\"a\":{}}}" :> "c52ff5bf5950f85751a123b905350c73c248d553f0d51d84b73a8266abe65e03")
  @@ ("{\"a\":{\"b\":{\"a\":\"v\"},\"a\":1}}" :> "f9ecde804cd4ed55be6b949ca24d87764d933f188062c8b8da5762b2033bef12")
  @@ ("{\"a\":{\"b\":{\"a\":\"v\"},\"a\":\"v\"}}" :> "17af9192618128511a6e8af7617ddfc22b3d158d0f2c3ea16407283640f217d8")
  @@ ("{\"a\":{\"b\":{\"a\":\"v\"},\"a\":{}}}" :> "549bbfe6d05acb3985736bb4164957343db7b8aab60cd573c1dad60beb7395ce")
  @@ ("{\"a\":{\"b\":{\"a\":{}},\"a\":1}}" :> "653e91f331d36e400c335f105ea02d3901d13e567d21d82f398ef8ac050b8316")
  @@ ("{\"a\":{\"b\":{\"a\":{}},\"a\":\"v\"}}" :> "5240d3620ad24a2a871fc8f47cd1f8e19560c814f2b91844a5b3e79191585177")
  @@ ("{\"a\":{\"b\":{\"a\":{}},\"a\":{}}}" :> "df01f5d3778bde80595260d5743de22f7e17e3b6f1bb885f96e480b29b6ca9bb")
  @@ ("{\"a\":{\"b\":{\"b\":1},\"a\":1}}" :> "1e2b00cf5a438a448a1af7ccbef5198cd019f48208eefed1660f296cf2ce41d2")
  @@ ("{\"a\":{\"b\":{\"b\":1},\"a\":\"v\"}}" :> "6c8c8c1b41835d27bc785c55aad3cde1a83dc1f1566bee00872c5dfae0b0aced")
  @@ ("{\"a\":{\"b\":{\"b\":1},\"a\":{}}}" :> "41d1eead6427898bb47827af259e96d41a8c326e3158d796c97895c5b45599e2")

Sha256Digests04 ==
     ("{\"a\":{\"b\":{\"b\":\"v\"},\"a\":1}}" :> "07d718df0555d3a43695527ff6395dc113bb4001cde25ad0ba1d46a00b6b9dbe")
  @@ ("{\"a\":{\"b\":{\"b\":\"v\"},\"a\":\"v\"}}" :> "63e2c60577a29666b28d37d1b1c737a01fe04358f8165af380375be9454d6a98")
  @@ ("{\"a\":{\"b\":{\"b\":\"v\"},\"a\":{}}}" :> "0a8fe57675709a5329428cfe615928015ee5adc8f43cb33c6498e807a73048ef")
  @@ ("{\"a\":{\"b\":{\"b\":{}},\"a\":1}}" :> "f58981e86b98824aa15a5ac21d913ccbee4786d03b57673dc8a5b3f99f752f25")
  @@ ("{\"a\":{\"b\":{\"b\":{}},\"a\":\"v\"}}" :> "889c274121f24049fc28b1562fe43478cfced16dd065b6f4c1294db031e0c7ff")
  @@ ("{\"a\":{\"b\":{\"b\":{}},\"a\":{}}}" :> "e20050ba02e1d00a06bf482a9ac1c05e9be988eb62dad3033726d888a30a2236")
  @@ ("{\"b\":{\"a\":{\"a\":{\"a\":1}}}}" :> "acd3b09f9ebcd630425a00c57085692a25318068167166f89e4e102a7c98a7a4")
  @@ ("{\"b\":{\"a\":{\"a\":{\"a\":\"v\"}}}}" :> "94413af76d8e09622ae986d19395edc1b7c09d7adb7f14eedd2cc0d4a8e829ce")
  @@ ("{\"b\":{\"a\":{\"a\":{\"a\":{}}}}}" :> "0f132ac823c6d827f7290a2b2d4cfee5f5840c7dcc71ffdd5d7e6347ba4ac213")
  @@ ("{\"b\":{\"a\":{\"a\":{\"b\":1}}}}" :> "754e6453d74a24bf89013173d5efb5dced7584cba5b722cacb7caa4576fd0f52")
  @@ ("{\"b\":{\"a\":{\"a\":{\"b\":\"v\"}}}}" :> "9a854edc142caed551588a4eaa1f65eebe5ddf953d6821130aa91e05177a64dd")
  @@ ("{\"b\":{\"a\":{\"a\":{\"b\":{}}}}}" :> "434aa65ff8f3fd01833bcacba90f0a1e5447f8282d5ea283da4b640f333dab5a")
  @@ ("{\"b\":{\"a\":{\"b\":{\"a\":1}}}}" :> "36c1a8673a3bbf052ee9920f52fe251847b073047db41cd6be7ff152a0d5961a")
  @@ ("{\"b\":{\"a\":{\"b\":{\"a\":\"v\"}}}}" :> "af86240ac69c3dd73f29e147cbc108d22fc45596d286d6602d678c4ef70d2aff")
  @@ ("{\"b\":{\"a\":{\"b\":{\"a\":{}}}}}" :> "593ea6e2d97fe54028b17113d07b9754a7f75288e0a0fcc58be1c05e8467412b")
  @@ ("{\"b\":{\"a\":{\"b\":{\"b\":1}}}}" :> "6146ee48c29464a99b707c6c77abcde7f8636b0faa99423d4d49c8fc9673c471")
  @@ ("{\"b\":{\"a\":{\"b\":{\"b\":\"v\"}}}}" :> "7b13630cf3c74a19ed79d92c66e4215f907a7720a93fb90069482ce67a6a20a0")
  @@ ("{\"b\":{\"a\":{\"b\":{\"b\":{}}}}}" :> "b9e890be2e90cc4713071856dd97316556f93e3fe1ff039a25a81f45027d050e")
  @@ ("{\"b\":{\"a\":{\"a\":1,\"b\":1}}}" :> "bf195422b187062d5da18ed47f7f60e24705d95f2715d9b44d856aee5cc0c089")
  @@ ("{\"b\":{\"a\":{\"a\":1,\"b\":\"v\"}}}" :> "ff5d0c9fdd8ddbeac99a44259cdccb5f29a79db4e697deaa231712441052e617")
  @@ ("{\"b\":{\"a\":{\"a\":1,\"b\":{}}}}" :> "6b8f2d1dbebd56ded664edc92fe84f4aa7ac6fc044a61d045a9af8eec3829da6")
  @@ ("{\"b\":{\"a\":{\"a\":\"v\",\"b\":1}}}" :> "66f99375cbe51384ad0889197613283d6a488c346c9566521c78e72e8b0a411c")
  @@ ("{\"b\":{\"a\":{\"a\":\"v\",\"b\":\"v\"}}}" :> "3ecc161ae48758d9b15ed674c11334fbe5bb0b2f8706a745fe7801f999066f78")
  @@ ("{\"b\":{\"a\":{\"a\":\"v\",\"b\":{}}}}" :> "dca96af967f7602b407a9d554e24d45944c916936f24009cd8203ca64692ec8f")
  @@ ("{\"b\":{\"a\":{\"a\":{},\"b\":1}}}" :> "280d989a1d3de79146c446a4ef9656c79ae3b9b6fa1d1085a6e452f5d04ac0a8")
  @@ ("{\"b\":{\"a\":{\"a\":{},\"b\":\"v\"}}}" :> "0bb7025eb417d542d16d7d3441c2440a49d82de90f0dc26aca9edb10e652ed3a")
  @@ ("{\"b\":{\"a\":{\"a\":{},\"b\":{}}}}" :> "6eb49e53314e19ff1893bb7b90840dbe6c567452c6acc8a4ee27a19daaecf481")
  @@ ("{\"b\":{\"a\":{\"b\":1,\"a\":1}}}" :> "140e4487fb4afd848333b29ac94f40443d20674856237fa53fd5f14dc4addf25")
  @@ ("{\"b\":{\"a\":{\"b\":1,\"a\":\"v\"}}}" :> "3549434d68c13baa8eb73f99efd3fdb0459207f881e1aaae1daf380157d01e76")
  @@ ("{\"b\":{\"a\":{\"b\":1,\"a\":{}}}}" :> "d84320c5a47501fae0af57933c49d0dec36453caf7730e450bb5c225f9290997")
  @@ ("{\"b\":{\"a\":{\"b\":\"v\",\"a\":1}}}" :> "bcbba40c2aafb9165588340c42adc6e9977499114c64ef7312ec067cdaefd8cf")
  @@ ("{\"b\":{\"a\":{\"b\":\"v\",\"a\":\"v\"}}}" :> "f62012746d51ce70a5ca2334cb141d4fe3c0557f22353865de383fa5b04f2617")
  @@ ("{\"b\":{\"a\":{\"b\":\"v\",\"a\":{}}}}" :> "b5ad68a87262cda4b7527d4eddf359f9d6dc970245891a5e6c39fd5fa349996c")
  @@ ("{\"b\":{\"a\":{\"b\":{},\"a\":1}}}" :> "9f44bc87c7150774335f50838b3c487220414e67a57e611f17024014c923fe55")
  @@ ("{\"b\":{\"a\":{\"b\":{},\"a\":\"v\"}}}" :> "6671a8bc360ed160d6749e39fbb1cf00ff8df813d2335084eaf2c497a1aab956")
  @@ ("{\"b\":{\"a\":{\"b\":{},\"a\":{}}}}" :> "1e76e92e104b467d3f7fb99ba198105b2f8d5506ee27253777ccb76edfb14012")
  @@ ("{\"b\":{\"b\":{\"a\":{\"a\":1}}}}" :> "32fabd41e3b0439e3d9b98fe4251750bbdb65de9bce05af095d7bd1ab20517dd")
  @@ ("{\"b\":{\"b\":{\"a\":{\"a\":\"v\"}}}}" :> "144b0ec26de29c3b96bd308a8ba30845c7d491ba161b9b111703efa97a75badf")
  @@ ("{\"b\":{\"b\":{\"a\":{\"a\":{}}}}}" :> "551bcd3b78408e14c856bfdabb0f0c5b1621cf5126740f793fa81b7e12dcfb88")
  @@ ("{\"b\":{\"b\":{\"a\":{\"b\":1}}}}" :> "5f2e25227ae3aa3a87f2fd32530ee1193bbbd893c3dd1f59b89d24facf42e72e")
  @@ ("{\"b\":{\"b\":{\"a\":{\"b\":\"v\"}}}}" :> "f18a8350a853c151dd4cb7ac80b1b1398c729ab578283a3272500de5b1d2bfb4")
  @@ ("{\"b\":{\"b\":{\"a\":{\"b\":{}}}}}" :> "ffd03cbe8f28c619240778091e23e26aca008521817c5e8df24102d5f4833903")
  @@ ("{\"b\":{\"b\":{\"b\":{\"a\":1}}}}" :> "8b7ef6dd9385d3585ea29b60b0a450ba085488439203e5c917ad0ef3838d7283")
  @@ ("{\"b\":{\"b\":{\"b\":{\"a\":\"v\"}}}}" :> "c2b5a7f9dcf8613053689db2eb7a150fc03f52327bd0227d7bba312a5c6d8db9")
  @@ ("{\"b\":{\"b\":{\"b\":{\"a\":{}}}}}" :> "8c8b15b6570bdb12f93d54aa2f92bd83160e304e0c686bc844df1340338b48a2")
  @@ ("{\"b\":{\"b\":{\"b\":{\"b\":1}}}}" :> "e8943ce76fce0a126df288cdbf56413dbbffb53a6ac851381a081900d15b7fe4")
  @@ ("{\"b\":{\"b\":{\"b\":{\"b\":\"v\"}}}}" :> "38346fe46893a44d99d641d1336f20279faf600b688778ec26308d20e300fe4a")
  @@ ("{\"b\":{\"b\":{\"b\":{\"b\":{}}}}}" :> "95f75a2ae29ed00b8b1a6106ce0de760f85c00b02cc7e599c83983d8248c137d")
  @@ ("{\"b\":{\"b\":{\"a\":1,\"b\":1}}}" :> "b309b28b99953c30030006eea65a5b048a4571154092456b714564ee97d7024f")
  @@ ("{\"b\":{\"b\":{\"a\":1,\"b\":\"v\"}}}" :> "46106491e769f4f71efdfc7ae928e8748d76e782662cd52c2311cca8a21c9c0e")
  @@ ("{\"b\":{\"b\":{\"a\":1,\"b\":{}}}}" :> "f0137d22de3f5ebeb85297815c6bd210b580724f5e4a148a500af39c01ec4b55")
  @@ ("{\"b\":{\"b\":{\"a\":\"v\",\"b\":1}}}" :> "8361725d2724147e970066971ba596fc74e9e643125bc8541940ed8251f964fc")
  @@ ("{\"b\":{\"b\":{\"a\":\"v\",\"b\":\"v\"}}}" :> "73c0076b0cf90f7ddd8e68dcbfeb4cecb54859ca71d94054d331d4c38dc1dc67")
  @@ ("{\"b\":{\"b\":{\"a\":\"v\",\"b\":{}}}}" :> "5c65bcd4c730babc5009d7f19f03409a713a0436dd7eaf2efbf7f79c3fcc4ff9")
  @@ ("{\"b\":{\"b\":{\"a\":{},\"b\":1}}}" :> "cdd01a973f27424a73b1d088cf2d66d2218747c1376c2cbd09cc581d4fd3c7df")
  @@ ("{\"b\":{\"b\":{\"a\":{},\"b\":\"v\"}}}" :> "8cd35468c06b5035998790c5c067343b64e8b9e4d9bd08d38268c863fb5cb83b")
  @@ ("{\"b\":{\"b\":{\"a\":{},\"b\":{}}}}" :> "b19bb16667220d4f55dc436638470b9695f643fef182649c60622a3e2e6cd88c")
  @@ ("{\"b\":{\"b\":{\"b\":1,\"a\":1}}}" :> "7392d8b5cc2de2dd37c8473adea0d98ba6fc501a6fecfbf22e3725d673500264")
  @@ ("{\"b\":{\"b\":{\"b\":1,\"a\":\"v\"}}}" :> "1902d7ae44a8a231cf010b1deacdc1491c197c621a6334765df60ec77d502abf")
  @@ ("{\"b\":{\"b\":{\"b\":1,\"a\":{}}}}" :> "a03d4a8e5e5c56be4be5102034fc534393274d3c3e52e0689fb10b005b04cdb9")
  @@ ("{\"b\":{\"b\":{\"b\":\"v\",\"a\":1}}}" :> "d4b8dacdebddb37bf939f97ee74ce139a2938e4381e481e5b7ab9a29e4022de1")
  @@ ("{\"b\":{\"b\":{\"b\":\"v\",\"a\":\"v\"}}}" :> "25e09931d7719b1a70afdc216938e7b49ef95d946ffb60fad64aa314c3425d42")
  @@ ("{\"b\":{\"b\":{\"b\":\"v\",\"a\":{}}}}" :> "6b104dbc57f5390bcad90fae7f28c45418e95447f9fdda63f2389c8d045bcaea")
  @@ ("{\"b\":{\"b\":{\"b\":{},\"a\":1}}}" :> "8392cf8b7ff737452d180f2fcad981635c7721c2663ccfe927fb88ce168d563a")
  @@ ("{\"b\":{\"b\":{\"b\":{},\"a\":\"v\"}}}" :> "99e60d9c48d6d4a7132f9dc7eb4fcd88a1c4e0b1958bf2167695e75b68760e6d")
  @@ ("{\"b\":{\"b\":{\"b\":{},\"a\":{}}}}" :> "0183dbc47a50661d7cd2385a1f90434485e52a0f8d5066f886633bbc046bf65c")
  @@ ("{\"b\":{\"a\":1,\"b\":{\"a\":1}}}" :> "38b124f50447942ac17ab2eb416c8ae480982f1d69331924221b6ea8e21ad20d")
  @@ ("{\"b\":{\"a\":1,\"b\":{\"a\":\"v\"}}}" :> "7bd89e03470f74672c01cd22979c14c20f9a203c44b3a2dc2e4e9a8d489dad50")
  @@ ("{\"b\":{\"a\":1,\"b\":{\"a\":{}}}}" :> "352eda4a085416eeee71451dc31f8813f5830f674e6ad93ffc93f6ba094255e9")
  @@ ("{\"b\":{\"a\":1,\"b\":{\"b\":1}}}" :> "c30d454b5dfbf69006780d2d52a1bd7ada2856439f9ff1b0d0a77306a9be5567")
  @@ ("{\"b\":{\"a\":1,\"b\":{\"b\":\"v\"}}}" :> "646382296efdf01d1517f32dfb50852d0fcfe2c31de821332599e7f410437816")
  @@ ("{\"b\":{\"a\":1,\"b\":{\"b\":{}}}}" :> "1f84a49efba3eb12061fa991ee891f61e95b84016f9d873d2b4de539ea8ebf27")
  @@ ("{\"b\":{\"a\":\"v\",\"b\":{\"a\":1}}}" :> "9e3ed6980f6190aa9e004737d494b254142b7e5889490e9bd9ada9141956ee5e")
  @@ ("{\"b\":{\"a\":\"v\",\"b\":{\"a\":\"v\"}}}" :> "28d02bf60f0f952beb3f08ed1a0db0d45032ee8b9ce8e1c692469ca4768b72fa")
  @@ ("{\"b\":{\"a\":\"v\",\"b\":{\"a\":{}}}}" :> "e95fd646b9dbe7a3907b90fcac3c6f10973bbc71d0238177dcee7b1faff6ec68")
  @@ ("{\"b\":{\"a\":\"v\",\"b\":{\"b\":1}}}" :> "7e1f0fc8ed754a2259e07a894d64e0e4d665500b7e7dabf67439e6cd3ee9b143")
  @@ ("{\"b\":{\"a\":\"v\",\"b\":{\"b\":\"v\"}}}" :> "9e7ced9feb90ddd548581a31bbc836fda9364e5ab1d3bc73bdbed3b0cf9d2d12")
  @@ ("{\"b\":{\"a\":\"v\",\"b\":{\"b\":{}}}}" :> "220ba45e876c47c5cc04d7ecebd5256284298c6aca2eafc59288d886c61b6269")
  @@ ("{\"b\":{\"a\":{},\"b\":{\"a\":1}}}" :> "1523fc0a0ea35ac5c3c4871b0bedb5437584bbf9e554d78ca7b6d769c26f8a5e")
  @@ ("{\"b\":{\"a\":{},\"b\":{\"a\":\"v\"}}}" :> "84c2b91dccfe88df3eed3765f0a355bfac3ac796c568d019870b12fd10d7ea3d")
  @@ ("{\"b\":{\"a\":{},\"b\":{\"a\":{}}}}" :> "bd4f35900947aa230ed7a238a49d6c1b0e2feab92f61c7968a0772ff51d53c64")
  @@ ("{\"b\":{\"a\":{},\"b\":{\"b\":1}}}" :> "beadd77fd4452931395cbfd409db03883c019649bf6d8623711951590152385a")
  @@ ("{\"b\":{\"a\":{},\"b\":{\"b\":\"v\"}}}" :> "c82cec152722879e9cf7b9ecbadd0785b8b89a373ad1239cbd899d41a556c1e5")
  @@ ("{\"b\":{\"a\":{},\"b\":{\"b\":{}}}}" :> "34abc1a016452b964cd90e95098c4214746a7c1d0377ad5c64245f7797104891")
  @@ ("{\"b\":{\"a\":{\"a\":1},\"b\":1}}" :> "9ab71797b79709d3262d862588ed0d735dedb81eda1a64729dcabdc3ac963727")
  @@ ("{\"b\":{\"b\":1,\"a\":{\"a\":1}}}" :> "091085a71a81b3efc3ad97c029ca0f1a2e299cf52bba3d83a91291266cd298bb")
  @@ ("{\"b\":{\"a\":{\"a\":\"v\"},\"b\":1}}" :> "ff1fa08bafbad7ff32c74ba67303c69db128670d4896fdbfdba60242e1fc3649")
  @@ ("{\"b\":{\"b\":1,\"a\":{\"a\":\"v\"}}}" :> "9cba036b075f0913c5f7fec80e8b94a2e45fe416a3e96f59d278ab25d97030e9")
  @@ ("{\"b\":{\"a\":{\"a\":{}},\"b\":1}}" :> "3ccce21338ec1b398f8776916ab4b089d8829978867c66fdd15e07b76152be28")
  @@ ("{\"b\":{\"b\":1,\"a\":{\"a\":{}}}}" :> "2ca642f6759f0207e512d418e0a0f6a992b50ac7cdddf4b1214624ab20b62a62")
  @@ ("{\"b\":{\"a\":{\"b\":1},\"b\":1}}" :> "c8841b2624fd139468650d2e63b30d2b51a2710fddc53d0642057595a723a9a7")
  @@ ("{\"b\":{\"b\":1,\"a\":{\"b\":1}}}" :> "e887cc94be684886b288b7b3fe46c3e84129a43ceb3ae7383bc7edf8ae4d93a5")
  @@ ("{\"b\":{\"a\":{\"b\":\"v\"},\"b\":1}}" :> "a7eee28631fa68533486b873041eb3ef6782910eb07157ecbdaf0805e53771b8")
  @@ ("{\"b\":{\"b\":1,\"a\":{\"b\":\"v\"}}}" :> "88a8ac86e07909bf3a3824605c076b0f5a70b439f1cea0a691d76212b0e56a27")
  @@ ("{\"b\":{\"a\":{\"b\":{}},\"b\":1}}" :> "33efd73d3a9b314c0f2840acae10ccf7d83daeb680383696012e68684b1a5874")
  @@ ("{\"b\":{\"b\":1,\"a\":{\"b\":{}}}}" :> "42466a795f70d1fe84fbc1ff5dc5bec8eee1231616afea37ad7757a094fd6820")
  @@ ("{\"b\":{\"a\":{\"a\":1},\"b\":\"v\"}}" :> "857e4952bfa65c7ab8806114b6d4fe7776cda9ca30ba8b6f9c392e1c150f7620")
  @@ ("{\"b\":{\"b\":\"v\",\"a\":{\"a\":1}}}" :> "3f52ff3cb874488834f905aada9a9c68ef7a2a434404c8f1809590159a056959")
  @@ ("{\"b\":{\"a\":{\"a\":\"v\"},\"b\":\"v\"}}" :> "699dd1193890f1962221a4ce4c75faa488e603cc5680be2d9bb2de49d2f4ede4")
  @@ ("{\"b\":{\"b\":\"v\",\"a\":{\"a\":\"v\"}}}" :> "3b4df0a380990dd9b5b358d16c697178d26df650413c23e010c0b5d046b5c795")

Sha256Digests05 ==
     ("{\"b\":{\"a\":{\"a\":{}},\"b\":\"v\"}}" :> "5da7a1cb3fcf9f750ef20c17f4dd0dd5e773cb9f15c3ca0982d64975da21976f")
  @@ ("{\"b\":{\"b\":\"v\",\"a\":{\"a\":{}}}}" :> "7bf48ab1bda1f2d656dcfe22a2d0e50f55f2553254dca418b43fb8d0e7af7ab5")
  @@ ("{\"b\":{\"a\":{\"b\":1},\"b\":\"v\"}}" :> "0917d768ed6b1aa29d4fdadcc64deaa8d684e76445a271faf6616fbcc50afdb6")
  @@ ("{\"b\":{\"b\":\"v\",\"a\":{\"b\":1}}}" :> "8fbe767ed78183a7de6029fbf4a64bd4af1163d09550c09a4000221623b67fbd")
  @@ ("{\"b\":{\"a\":{\"b\":\"v\"},\"b\":\"v\"}}" :> "dfc00aea1fa09eb64014f63bba97d063a98f333e567d3e8cd5703d5f10bd6fd2")
  @@ ("{\"b\":{\"b\":\"v\",\"a\":{\"b\":\"v\"}}}" :> "b19931a00cb2b74a9da70dbec6749b2e7712dc14a23e46581941b2ef75bb3690")
  @@ ("{\"b\":{\"a\":{\"b\":{}},\"b\":\"v\"}}" :> "f6253bda6ff60c07d95d187364c3f176f25a6de876555e5b95c33f6b995897d1")
  @@ ("{\"b\":{\"b\":\"v\",\"a\":{\"b\":{}}}}" :> "c0218d33ea5acd9177ab073e51b102c6b628480d0e0c5f94c09348ecc73b7f5c")
  @@ ("{\"b\":{\"a\":{\"a\":1},\"b\":{}}}" :> "06cc798aa08f0c9dc21ddc2e2685521fa6fc82d97bbe2c18e3b3c4123fce7431")
  @@ ("{\"b\":{\"b\":{},\"a\":{\"a\":1}}}" :> "203a5d3df12a206d46f34d0199887515467dcc2f3dc7d1e22d8ca16c5562fb97")
  @@ ("{\"b\":{\"a\":{\"a\":\"v\"},\"b\":{}}}" :> "d5a74fae31f4e4594fa724061bcc40acc205acbb7c9661adb81349e639459c29")
  @@ ("{\"b\":{\"b\":{},\"a\":{\"a\":\"v\"}}}" :> "3a667bd22d186e58ee12824847c735550df4ec1edfdf73fe2e4a0beb99d6d1ac")
  @@ ("{\"b\":{\"a\":{\"a\":{}},\"b\":{}}}" :> "859bf726b53aa30aa433be0a55206ae3f6ef4d355fab41a457995bd889dc5755")
  @@ ("{\"b\":{\"b\":{},\"a\":{\"a\":{}}}}" :> "f90814ab5b49972f0cbdb02e10b0d42b9467e6c8f7ca9a275318f61b6ad6f199")
  @@ ("{\"b\":{\"a\":{\"b\":1},\"b\":{}}}" :> "7d11eea20e0d1651abac00d501fb140abc910eb031aa2c760cf33f7417717c93")
  @@ ("{\"b\":{\"b\":{},\"a\":{\"b\":1}}}" :> "39dbaa46f45eef095916ebde68b137679606516bee59e5d78f45189a20022ced")
  @@ ("{\"b\":{\"a\":{\"b\":\"v\"},\"b\":{}}}" :> "322536878ddc1d9bf241ba66eaf34d49a859bb9f6e2e90b806b039c63a32e420")
  @@ ("{\"b\":{\"b\":{},\"a\":{\"b\":\"v\"}}}" :> "6396b8d8b45fe79667ea38d3cda3e94460ae3a209d81d2cfc662e2a0874be3c4")
  @@ ("{\"b\":{\"a\":{\"b\":{}},\"b\":{}}}" :> "4970296cf3819dc27f70c2d3071beaa1c5106eea3c0c055c4dc5a7f1c78b02dd")
  @@ ("{\"b\":{\"b\":{},\"a\":{\"b\":{}}}}" :> "9fcc3053efa5b2de3474c9db9d8414f91896733bb70428ebfeed9cbd9c283473")
  @@ ("{\"b\":{\"b\":{\"a\":1},\"a\":1}}" :> "2029944de95a10fc408d44a36aac6136e85659d1980c2aceca9e8550a5490cb6")
  @@ ("{\"b\":{\"b\":{\"a\":1},\"a\":\"v\"}}" :> "7128a60871f7b2ab2a77fe2f82a42f2e4be7b4e9fadd4ea774502d50e6337e7d")
  @@ ("{\"b\":{\"b\":{\"a\":1},\"a\":{}}}" :> "c233bbeb4cad04a134dbd70470500c37a84845af5fda264d48629f6cf36f0ef8")
  @@ ("{\"b\":{\"b\":{\"a\":\"v\"},\"a\":1}}" :> "916ff111717799dc2f0a3eac34aa73cbe52bed8a1899bb013ac2f8a1bc7d5278")
  @@ ("{\"b\":{\"b\":{\"a\":\"v\"},\"a\":\"v\"}}" :> "3c6b8cf093543707efb8f948c44a3095c68cbacd4af5e3c50452b7089e2cab51")
  @@ ("{\"b\":{\"b\":{\"a\":\"v\"},\"a\":{}}}" :> "19d948ec19f600b5721a553ff12dac5290ef3598fea5873c72f7620570db83ee")
  @@ ("{\"b\":{\"b\":{\"a\":{}},\"a\":1}}" :> "02e5d11e1ebe711fc44717deed09db788f1ce1431b6997fecc6f677e8a953e2f")
  @@ ("{\"b\":{\"b\":{\"a\":{}},\"a\":\"v\"}}" :> "a4ab52a9253c0f94e4bb3e3a0b01bccf7dde540bed4a209c975d1a5a5a050a8c")
  @@ ("{\"b\":{\"b\":{\"a\":{}},\"a\":{}}}" :> "e10e2f61e2b64446f19fb4ebc8efc823cac115791f3a7793a196fe589e87302e")
  @@ ("{\"b\":{\"b\":{\"b\":1},\"a\":1}}" :> "ae801fa6e91573c8f98606062d57822505cfb4463e6dbd587c63042dcdb62b64")
  @@ ("{\"b\":{\"b\":{\"b\":1},\"a\":\"v\"}}" :> "2adbcd4f2efdb33105c513c0d079c54f2ef2b8d07c1fae33dbaf58aece706ed4")
  @@ ("{\"b\":{\"b\":{\"b\":1},\"a\":{}}}" :> "f47b56347df4e8a7b012739b2f516dc347dc461f0339e96c82863d4fe616cf84")
  @@ ("{\"b\":{\"b\":{\"b\":\"v\"},\"a\":1}}" :> "5d62f742efde01e5ba44d77614368a14607b89ca28275998766e800d9cf685f8")
  @@ ("{\"b\":{\"b\":{\"b\":\"v\"},\"a\":\"v\"}}" :> "773a8584147e420aebc9963960ffba3eb1ff6d02b7eebfa9e4c34bf954dda52e")
  @@ ("{\"b\":{\"b\":{\"b\":\"v\"},\"a\":{}}}" :> "e8375c5eebcedb837df26d7424cc6ea0459981f272ede03b9df4ad16f2def332")
  @@ ("{\"b\":{\"b\":{\"b\":{}},\"a\":1}}" :> "eee13cfd53d89300e5c982c52e9f5898bd7a7a12f914ed9cdb5c1243fafc1f4d")
  @@ ("{\"b\":{\"b\":{\"b\":{}},\"a\":\"v\"}}" :> "e8e1b07fe325daea37000c46e1f61b73c86755f94cd4892b5dadc4aa55afcde4")
  @@ ("{\"b\":{\"b\":{\"b\":{}},\"a\":{}}}" :> "4784ff5b363293be53c48f7e7df0d5a5f7ca9d6d3bd72a8b9bcc0fe8d048f684")
  @@ ("{\"a\":1,\"b\":{\"a\":{\"a\":1}}}" :> "12385b26754e44f04f2802b87a72f7e2bad95b46aaeb1d0e938fd798c1866a58")
  @@ ("{\"a\":1,\"b\":{\"a\":{\"a\":\"v\"}}}" :> "f416230533d32048b15c135c9cb467aaf7ab3072c9a39d152161594d6c80cf01")
  @@ ("{\"a\":1,\"b\":{\"a\":{\"a\":{}}}}" :> "36c30a00298eb60b64e2bb93a2ee03691fbece13662cf5b3ceb1773cab61adc1")
  @@ ("{\"a\":1,\"b\":{\"a\":{\"b\":1}}}" :> "2879fdb265d96f5819f3f74165fefb35d9146448ab65f925f76323f3d6566720")
  @@ ("{\"a\":1,\"b\":{\"a\":{\"b\":\"v\"}}}" :> "5824d6680f4abeea422a4ada021ae7e73a6593664b4f8fb908f5693bc545251a")
  @@ ("{\"a\":1,\"b\":{\"a\":{\"b\":{}}}}" :> "bde78fb651bf134438a2018874327cd994c8874eabc70793cb759095a5468ff7")
  @@ ("{\"a\":1,\"b\":{\"b\":{\"a\":1}}}" :> "de8f9c83a22ba02f01fbffefa90c0d4b2b2deb3db30f2fe415734eff6f73a76f")
  @@ ("{\"a\":1,\"b\":{\"b\":{\"a\":\"v\"}}}" :> "13eb9f4da228e2fd8a250ba23755d2f5ee3f44e9954db67db8cb599362ea210a")
  @@ ("{\"a\":1,\"b\":{\"b\":{\"a\":{}}}}" :> "305e7efb984a1df9660185cc826e073509e414cf0e33eb0c5396687c6a6f1ba0")
  @@ ("{\"a\":1,\"b\":{\"b\":{\"b\":1}}}" :> "13b132e0a41014d2b07e32768f92405be23f9408f38dcc89a170a08b61dd3dbf")
  @@ ("{\"a\":1,\"b\":{\"b\":{\"b\":\"v\"}}}" :> "5241ff68e35988406bc439700401e2d1fc447bedf95562973f42b15cf3cfedf8")
  @@ ("{\"a\":1,\"b\":{\"b\":{\"b\":{}}}}" :> "259561451f6dd64eaf45de96d89feba2bdbd68e9143c83811adbd200f3f9cb42")
  @@ ("{\"a\":1,\"b\":{\"a\":1,\"b\":1}}" :> "04fe2a5c50cd1223e54f515e207064c3b9064883b187fd7854db298239e75152")
  @@ ("{\"a\":1,\"b\":{\"a\":1,\"b\":\"v\"}}" :> "95a66a918b3aa2b254f0bdc9cd402cf3d63415d90b4c83ea1b9ac06d3fdc61f2")
  @@ ("{\"a\":1,\"b\":{\"a\":1,\"b\":{}}}" :> "85d50a5568f82004a7d0250cc030562f6fff455d6333f5d2494923ff71804318")
  @@ ("{\"a\":1,\"b\":{\"a\":\"v\",\"b\":1}}" :> "52c149338cf71c0b1692703f0e1b54a8a5e204215fe952ab67a1a1ff41b8be5d")
  @@ ("{\"a\":1,\"b\":{\"a\":\"v\",\"b\":\"v\"}}" :> "1f1365749ca99363bf62afe2b91097ffd3536def8f81581abd9fb0f73c52995f")
  @@ ("{\"a\":1,\"b\":{\"a\":\"v\",\"b\":{}}}" :> "992721421b114f792c34f5022afc42e7d1970f8d5c0378d7886083e1ead3748d")
  @@ ("{\"a\":1,\"b\":{\"a\":{},\"b\":1}}" :> "17ceaa46941cba7c3f10f309fa28e515b54882752e1d4820ba4405f1b4eba771")
  @@ ("{\"a\":1,\"b\":{\"a\":{},\"b\":\"v\"}}" :> "a1c00a0b478c85f8350e16c658730348092c6792655215a29c20b05a4dd21492")
  @@ ("{\"a\":1,\"b\":{\"a\":{},\"b\":{}}}" :> "951355f9301631a14d8878b1607bc2ff5088df19717b361112013e0a5434c04b")
  @@ ("{\"a\":1,\"b\":{\"b\":1,\"a\":1}}" :> "f4cb0e70103f2f2ea362d27dfa5b051e538129efe4d0a50ba6aa92712dacf932")
  @@ ("{\"a\":1,\"b\":{\"b\":1,\"a\":\"v\"}}" :> "5dc3af8c8724f6d1be4a3fbdfed18a3daee2fd1b311420fb2d4a046ce7cb53d4")
  @@ ("{\"a\":1,\"b\":{\"b\":1,\"a\":{}}}" :> "65615d726a48a68fb67c0e7dc4cd8f6e67a8f4779dc09598db4e9cfe17daf8bb")
  @@ ("{\"a\":1,\"b\":{\"b\":\"v\",\"a\":1}}" :> "5c0369d9d852614e8bf4bd86d8163792b27d1098c1b59e1af54ddb1adad921e8")
  @@ ("{\"a\":1,\"b\":{\"b\":\"v\",\"a\":\"v\"}}" :> "284a2cec181c5c0379b050bef90be092f5482ef19f31e5069edbffa1bffb1e7f")
  @@ ("{\"a\":1,\"b\":{\"b\":\"v\",\"a\":{}}}" :> "91dcd8184501bd1c0336c5d767c78fe7a63caa50d610aa826d97bb40538faf9f")
  @@ ("{\"a\":1,\"b\":{\"b\":{},\"a\":1}}" :> "936e8819e79b10b8843e320dbbc9f0cf610ebbeb66a27415f94ee7ca82b3841f")
  @@ ("{\"a\":1,\"b\":{\"b\":{},\"a\":\"v\"}}" :> "94ab5aab14a79489976421aaf980a843ab856cee8fc23c492751ee63743841c3")
  @@ ("{\"a\":1,\"b\":{\"b\":{},\"a\":{}}}" :> "af427b983d2da0694a11180617946b397e631eaff25b839a23bdee13ed6cc33e")
  @@ ("{\"a\":\"v\",\"b\":{\"a\":{\"a\":1}}}" :> "3c134558165eef5f8aa1aa52a8e9b2059d559efb890f419a6fdb4b1b646265da")
  @@ ("{\"a\":\"v\",\"b\":{\"a\":{\"a\":\"v\"}}}" :> "45fa7084594a0e26fd54644ae42990d1fd693ade01cdde2c2548d21bd3cffbc1")
  @@ ("{\"a\":\"v\",\"b\":{\"a\":{\"a\":{}}}}" :> "f6e276a5a3384ef5ea17faf70d34f3e80a34d59bb3bb1632e9f650f6edeeb9ad")
  @@ ("{\"a\":\"v\",\"b\":{\"a\":{\"b\":1}}}" :> "578a6772d2cf9d77b28df21fbff196cf27c99a8077e163275da0533935bcd825")
  @@ ("{\"a\":\"v\",\"b\":{\"a\":{\"b\":\"v\"}}}" :> "7be70fabb7ed615842dddf2dd846ab95bb5b754782f80b302e607a40bbf5032d")
  @@ ("{\"a\":\"v\",\"b\":{\"a\":{\"b\":{}}}}" :> "4d5cab2ffdd9b89663b747da613fb61f84f0c35478233658fded593319399b92")
  @@ ("{\"a\":\"v\",\"b\":{\"b\":{\"a\":1}}}" :> "fefeeb49910043448ef23b02f682e429f26a34aa7786880def4fb299f3e34674")
  @@ ("{\"a\":\"v\",\"b\":{\"b\":{\"a\":\"v\"}}}" :> "bb00673497255568a02c34d06d6ac51a30cef272593a75c601472316a5b72a83")
  @@ ("{\"a\":\"v\",\"b\":{\"b\":{\"a\":{}}}}" :> "6f947b43147cbe42271fc2d0832a0dbcbaba10e35b3a908bb98131828efa2af5")
  @@ ("{\"a\":\"v\",\"b\":{\"b\":{\"b\":1}}}" :> "c270fde2e649b14b0caef2c6fe59bad1061eb8f3c8141e6f3d1640306076f5b3")
  @@ ("{\"a\":\"v\",\"b\":{\"b\":{\"b\":\"v\"}}}" :> "ea350ae5cda668ea1656c7143d6f391e048ba3a33a3a7a58804b3497400f88a7")
  @@ ("{\"a\":\"v\",\"b\":{\"b\":{\"b\":{}}}}" :> "fa67a35030888a1173d77404d9b8c0a4fd8585afe0cfce876707beecc445b991")
  @@ ("{\"a\":\"v\",\"b\":{\"a\":1,\"b\":1}}" :> "f1124d9dcc7fd6ba47c32f5d2085bab3583832a9448dc05bb043aa333ddbc0af")
  @@ ("{\"a\":\"v\",\"b\":{\"a\":1,\"b\":\"v\"}}" :> "e4dbf5996b31f5992b4ab3696f22ba38678a1955416dd560fa2341f4e9d0e2a1")
  @@ ("{\"a\":\"v\",\"b\":{\"a\":1,\"b\":{}}}" :> "023fe8a1f7dd371ba7e016be017094cdda13672f170b5f6335515b9d6dd4c253")
  @@ ("{\"a\":\"v\",\"b\":{\"a\":\"v\",\"b\":1}}" :> "69aeb7ca02bb118dd25a1edc06cd9569c6d2129632ca0807e8a1df501aae8799")
  @@ ("{\"a\":\"v\",\"b\":{\"a\":\"v\",\"b\":\"v\"}}" :> "5fe5653ed77229da2759b919f8201b43210379be334f5f2cfb91e06e38e1c6c2")
  @@ ("{\"a\":\"v\",\"b\":{\"a\":\"v\",\"b\":{}}}" :> "beaa13542ee884417f5a4047caa317f0ec00f72a3589f9414e7f5ffecee3c58a")
  @@ ("{\"a\":\"v\",\"b\":{\"a\":{},\"b\":1}}" :> "ac5b620a6894677a56a519d0a706c2f994caaa4c89b35c7c5a050815b9543179")
  @@ ("{\"a\":\"v\",\"b\":{\"a\":{},\"b\":\"v\"}}" :> "cc1cf630599a2fd72b61233452c3ffcab2dfa95fd4a8859e3160c7959dab5f3c")
  @@ ("{\"a\":\"v\",\"b\":{\"a\":{},\"b\":{}}}" :> "7fb4258b2426935f85b959d23f2d2d6bcf6d33a2edcc8e23c0f92772ab523b88")
  @@ ("{\"a\":\"v\",\"b\":{\"b\":1,\"a\":1}}" :> "a069af2e072896f3f6f4f11a32f7e916c259eb486efe315c8355c9951a660573")
  @@ ("{\"a\":\"v\",\"b\":{\"b\":1,\"a\":\"v\"}}" :> "27068ca1c075b141bc5757d73702239bf899c523bee2611c5a28f535e9f43e9e")
  @@ ("{\"a\":\"v\",\"b\":{\"b\":1,\"a\":{}}}" :> "d10e1edfcedd2c52f8cf9a20de6ba71b759828a3c57a2be54c2fbd4fdc038776")
  @@ ("{\"a\":\"v\",\"b\":{\"b\":\"v\",\"a\":1}}" :> "a41eea2db9bfd7109ca341b2da1db2b9072cb1eaca93b55f8b2093175d64aa2c")
  @@ ("{\"a\":\"v\",\"b\":{\"b\":\"v\",\"a\":\"v\"}}" :> "9ec5b74e91191228ecb4c4546df94d04f37983eebad6d12f32b8e1c2e044108c")
  @@ ("{\"a\":\"v\",\"b\":{\"b\":\"v\",\"a\":{}}}" :> "7aff63c783991856c35a4e2e74d32b93d8272c605e3dca1c5b86aa7c0820641f")
  @@ ("{\"a\":\"v\",\"b\":{\"b\":{},\"a\":1}}" :> "76d4f2d3b3737bf2d15f01c308ab3cb5a30be2365deb607c503b3bcc642df9e7")
  @@ ("{\"a\":\"v\",\"b\":{\"b\":{},\"a\":\"v\"}}" :> "3d7668742e2be01a148dd4f8605520e791b53845596b0c05d59259c4cabd5462")
  @@ ("{\"a\":\"v\",\"b\":{\"b\":{},\"a\":{}}}" :> "b90687c4b51e8ceb39f581b2d9fa82618767f8bf44c7dfc8c156066da2a803a2")
  @@ ("{\"a\":{},\"b\":{\"a\":{\"a\":1}}}" :> "a69899467a10d5ea6bd4578b026afc84bb075665a613cab0486e471ca7a1eccc")
  @@ ("{\"a\":{},\"b\":{\"a\":{\"a\":\"v\"}}}" :> "d6a1260c47dbf7dd662a794ec1ca95d64279a56850c573a396a8460f03858b19")

Sha256Digests06 ==
     ("{\"a\":{},\"b\":{\"a\":{\"a\":{}}}}" :> "a1ba90fac3d49b7b937f34fa7a36adc64823392ede14dd11ec7e8edcb9ab0aff")
  @@ ("{\"a\":{},\"b\":{\"a\":{\"b\":1}}}" :> "781926665c263dae1d8397293da1a9f19611481cb940a318d457008466754b54")
  @@ ("{\"a\":{},\"b\":{\"a\":{\"b\":\"v\"}}}" :> "4c572c7d604ce4782c22522806df978f99554be95d13cd1f33f3659551878c9d")
  @@ ("{\"a\":{},\"b\":{\"a\":{\"b\":{}}}}" :> "57c134cb1edb4f50ceab363f1c7518a5a3fc4e27278bdd53a19a8445521e1884")
  @@ ("{\"a\":{},\"b\":{\"b\":{\"a\":1}}}" :> "4e56b930b1b4d934a4069b1eac423085cac57265ce208d27b4836ee9016dc0d8")
  @@ ("{\"a\":{},\"b\":{\"b\":{\"a\":\"v\"}}}" :> "8982567aadee8db8662c6acfed07fa9ce9da1ba5dce9b3d2d2f2109fdcf397bf")
  @@ ("{\"a\":{},\"b\":{\"b\":{\"a\":{}}}}" :> "7b3b8638c64a9932f2b88568d5e0ae59c081b92ec6a618fb474912306a626ebc")
  @@ ("{\"a\":{},\"b\":{\"b\":{\"b\":1}}}" :> "64c89467cd1b57dc78397c9e073f4629bceecb9deb25a797ee7b38672f528ac5")
  @@ ("{\"a\":{},\"b\":{\"b\":{\"b\":\"v\"}}}" :> "17af04713784977f4692293b4e8b3b7d2ff23eff0feb5c0f304629852a52acfa")
  @@ ("{\"a\":{},\"b\":{\"b\":{\"b\":{}}}}" :> "e45806d2094328aa1511715cafda41e2bd53401874e1de180e9ef8a46b806437")
  @@ ("{\"a\":{},\"b\":{\"a\":1,\"b\":1}}" :> "d7d7baf652e643be3fb63a35cb4911428eb6ce9d5ce1bf9c4bddc1f878d46b35")
  @@ ("{\"a\":{},\"b\":{\"a\":1,\"b\":\"v\"}}" :> "35e3696fcfa88e5e0543fdb78d3ddba63a76fd7130c151b3d3dad746ae254597")
  @@ ("{\"a\":{},\"b\":{\"a\":1,\"b\":{}}}" :> "f782b5ab68f18b2e368058e2c20e4a4768d1e13488a8780d2043be666a793afe")
  @@ ("{\"a\":{},\"b\":{\"a\":\"v\",\"b\":1}}" :> "1472abc3e371d93729d31537cf54d9b04a6beea4dc44176eae741e4b9dc453c4")
  @@ ("{\"a\":{},\"b\":{\"a\":\"v\",\"b\":\"v\"}}" :> "f01cdf851c6a38cd98d948a1ad1b53c796d19dbf4659e0d3a8b2e303df1d38e5")
  @@ ("{\"a\":{},\"b\":{\"a\":\"v\",\"b\":{}}}" :> "05627cb762b3f2699e8812213a38d8e5ccf491fd768a5c1bbf1a483f68048662")
  @@ ("{\"a\":{},\"b\":{\"a\":{},\"b\":1}}" :> "10d82e2452b4c8d9dbd2c2530339a0a53a8fba3613e134c19a76bc4d46e95401")
  @@ ("{\"a\":{},\"b\":{\"a\":{},\"b\":\"v\"}}" :> "7658a042101de17ee17407fc2761ac9a016d471f375d3126a1132864cca0428d")
  @@ ("{\"a\":{},\"b\":{\"a\":{},\"b\":{}}}" :> "260748055e7e164122d15721aeb269068b71b4ed635b80ffbb52f93807e44726")
  @@ ("{\"a\":{},\"b\":{\"b\":1,\"a\":1}}" :> "98ac7db70ccb24f1241f17a932f4d86292daf4a92701d641ce1eee55ae25934f")
  @@ ("{\"a\":{},\"b\":{\"b\":1,\"a\":\"v\"}}" :> "5cc259d7b7d35ec22d08502da4c7f5a70641fc832bf5c2a401cf9ec4fb491986")
  @@ ("{\"a\":{},\"b\":{\"b\":1,\"a\":{}}}" :> "d6c135118668683a67c02561cce9749b924bd672de5c740e23e3129405b00ae7")
  @@ ("{\"a\":{},\"b\":{\"b\":\"v\",\"a\":1}}" :> "721d48c3a2816b128993357b628d8c17a3b528f1213a1b376d41a13014fdb3cf")
  @@ ("{\"a\":{},\"b\":{\"b\":\"v\",\"a\":\"v\"}}" :> "30ba835269b0f0716721d94d42954dd902887ae73025704a8b0a971159da652b")
  @@ ("{\"a\":{},\"b\":{\"b\":\"v\",\"a\":{}}}" :> "8b4609ee60d86341ee0c174407a5b85b7a56842c342aeee414f4017a1583cdb2")
  @@ ("{\"a\":{},\"b\":{\"b\":{},\"a\":1}}" :> "f2673aa08ae5a3f6ed2e7c2d5b269b087b31b8532111834046e23b483c31eea8")
  @@ ("{\"a\":{},\"b\":{\"b\":{},\"a\":\"v\"}}" :> "ea6689a56224d358ca343b700ff1080ee893defc400d1bfc77f9dc67eb1add3f")
  @@ ("{\"a\":{},\"b\":{\"b\":{},\"a\":{}}}" :> "c839955e59429a2aecef99cfdc85e797ed77352b94f0874cf7f9a7e29351b547")
  @@ ("{\"a\":{\"a\":{\"a\":1}},\"b\":1}" :> "d1fbe9b78d08ab81b36ce68c985a82a10bd610c8d1e05f62db439e2b3015f40a")
  @@ ("{\"b\":1,\"a\":{\"a\":{\"a\":1}}}" :> "1ebfb903e896f3312a0491ebf442f928bafb130de3f78d66b37277cdd7f3413f")
  @@ ("{\"a\":{\"a\":{\"a\":\"v\"}},\"b\":1}" :> "7b03c5011f166c906e3926a4e67766dafacb68c99c84ebc9ace94afc441bac1d")
  @@ ("{\"b\":1,\"a\":{\"a\":{\"a\":\"v\"}}}" :> "d00e7ed3b651e50c2eb17487fc0808db0160f180e0f4c8f2702ea397e210cabd")
  @@ ("{\"a\":{\"a\":{\"a\":{}}},\"b\":1}" :> "e4e9dd79c8f7b963b09cc13738cd8e797bc05c77b2b7f5583963f541e5235b4f")
  @@ ("{\"b\":1,\"a\":{\"a\":{\"a\":{}}}}" :> "cdd4d772215a71b8b9be513a71444a9ba8dee04ae056db2f2bdc9dcc6e146df4")
  @@ ("{\"a\":{\"a\":{\"b\":1}},\"b\":1}" :> "abd543c807df1e94f95ce236575412029346766311b0a0c89156c87fcc7f0180")
  @@ ("{\"b\":1,\"a\":{\"a\":{\"b\":1}}}" :> "c439ac41a4afe7cc167eaa243c4413cecd50f7b8dc041ed5ff375a146d867b0b")
  @@ ("{\"a\":{\"a\":{\"b\":\"v\"}},\"b\":1}" :> "193952acac3d520e8fd165aa7454e67fbf9812a1c0c450b3ecbd4d89ab0dc5de")
  @@ ("{\"b\":1,\"a\":{\"a\":{\"b\":\"v\"}}}" :> "2965e009337c8ca719c01ffb9d1e8c00a8453e3829c171d8d74c9c5498c746fd")
  @@ ("{\"a\":{\"a\":{\"b\":{}}},\"b\":1}" :> "151b88f306d22709f01fc3ce76cf86fa5c09332cd1b54f83879e8836c3f2394e")
  @@ ("{\"b\":1,\"a\":{\"a\":{\"b\":{}}}}" :> "1303e5307fe19d6ec2b654ae71e8316c9e7dfad27d2e460cfd136f1246774cc9")
  @@ ("{\"a\":{\"b\":{\"a\":1}},\"b\":1}" :> "b444dee09afee2f99ba21fb08059da2cc8e0381bb23a9cae157e4d119c51d311")
  @@ ("{\"b\":1,\"a\":{\"b\":{\"a\":1}}}" :> "40760d22d1c7201b2361a41c21ec9dd9963ec70501de408a31b8a475ba85a90b")
  @@ ("{\"a\":{\"b\":{\"a\":\"v\"}},\"b\":1}" :> "70fbc66df5b81c617bab0789b260cfec26d86c679fd9b78baaee7735054cbcf3")
  @@ ("{\"b\":1,\"a\":{\"b\":{\"a\":\"v\"}}}" :> "e19443ea39278e35418f815b5b28130cf10fb4f96af5734caf4809795160275b")
  @@ ("{\"a\":{\"b\":{\"a\":{}}},\"b\":1}" :> "e218c1fb4667da8eb8bade4340a9a80a96defa7fc8f249f314004f4bc6a72965")
  @@ ("{\"b\":1,\"a\":{\"b\":{\"a\":{}}}}" :> "849e305dbcb1744b5290245e43495675d4023d4d0a84a2203894b2630b7f7f00")
  @@ ("{\"a\":{\"b\":{\"b\":1}},\"b\":1}" :> "f51fd69ceda4f1aca0c17d8027966bf6b82384c72fab8c7072eabe3a7eb175de")
  @@ ("{\"b\":1,\"a\":{\"b\":{\"b\":1}}}" :> "5215c6f69d1cb496873ae486a75897a9c195ee013d6b993de088567ab56ba3df")
  @@ ("{\"a\":{\"b\":{\"b\":\"v\"}},\"b\":1}" :> "45bbd54843218901e03a27653f8508ab3de9c3b4ffbc84a852f683757749c81c")
  @@ ("{\"b\":1,\"a\":{\"b\":{\"b\":\"v\"}}}" :> "654f46073f0aa4153e8c69a308300f838bebc4966a921e4a9d61322dc324f24b")
  @@ ("{\"a\":{\"b\":{\"b\":{}}},\"b\":1}" :> "7cea31454fac71f4e83c5f499198d2d35b520f7e6804dbd5d72baa65a93bfe0e")
  @@ ("{\"b\":1,\"a\":{\"b\":{\"b\":{}}}}" :> "e624995436f72f62ad071be8fa608744ce8640ee3bfdf99aa2568017aa0eef7c")
  @@ ("{\"a\":{\"a\":1,\"b\":1},\"b\":1}" :> "02b10026f6744f32779d46b52174f88fd21cdfa4972b24bda5b0b30a04ba41cd")
  @@ ("{\"b\":1,\"a\":{\"a\":1,\"b\":1}}" :> "420774f4d8c185e743bfdd1514eb027d0c45c2ee273cfa28cbd4db18e019b23b")
  @@ ("{\"a\":{\"a\":1,\"b\":\"v\"},\"b\":1}" :> "ae6975fd01c657ac15f44b0272b0f2e0f5fa0578db0478044a38a8b40aae515f")
  @@ ("{\"b\":1,\"a\":{\"a\":1,\"b\":\"v\"}}" :> "95e1d44a059c1b212bfc3c876ed0a9315a36111a941b8aefd95a83f7b06bc9a4")
  @@ ("{\"a\":{\"a\":1,\"b\":{}},\"b\":1}" :> "577ccbc3e25cad4680c7de725b9ee4ee440611e49618bac11573a1e7274c225b")
  @@ ("{\"b\":1,\"a\":{\"a\":1,\"b\":{}}}" :> "f714e73d55f649827f4a21343890da5915bc3e3c7cb01cf42c7a980142cc1849")
  @@ ("{\"a\":{\"a\":\"v\",\"b\":1},\"b\":1}" :> "21ccdd470427a23d57f4e8283b5de86c3e0f657e35c46b77a5e5973fe92a6a19")
  @@ ("{\"b\":1,\"a\":{\"a\":\"v\",\"b\":1}}" :> "c103d3ae4791be3cdb704b02371d8f8e191baa5372a8e0cc97cf31e4f326f72d")
  @@ ("{\"a\":{\"a\":\"v\",\"b\":\"v\"},\"b\":1}" :> "721ea8d7592467576d8d5b70b7b3e84d6f814d1ea656ea343d2638247aed37f0")
  @@ ("{\"b\":1,\"a\":{\"a\":\"v\",\"b\":\"v\"}}" :> "77e0f68e5bf72d916a1b0804049cf6f730a343c62fe9f356dd40ad560fd881c3")
  @@ ("{\"a\":{\"a\":\"v\",\"b\":{}},\"b\":1}" :> "32453017d1cf4c0ded3014a5ed34f233e3fa47ae50503f3423ce4bdf751fffb5")
  @@ ("{\"b\":1,\"a\":{\"a\":\"v\",\"b\":{}}}" :> "4053c260343fa6043cabfe510464575c213751193a59bf290cf0d5f6ccc33df8")
  @@ ("{\"a\":{\"a\":{},\"b\":1},\"b\":1}" :> "16560afc4f765cc982740a9e4370dd3beec913bfac5d0e60d0397bab7cb9d178")
  @@ ("{\"b\":1,\"a\":{\"a\":{},\"b\":1}}" :> "63b4551cec0721fc7e684ed66dea0c6a7b4774ccfa47cb95eacfc7da53ae43cf")
  @@ ("{\"a\":{\"a\":{},\"b\":\"v\"},\"b\":1}" :> "dd017121536bd4d98d0bcc98d2227ac44b8ec0264dd3eeb49ba31242623a9d8d")
  @@ ("{\"b\":1,\"a\":{\"a\":{},\"b\":\"v\"}}" :> "750c2fc39dc3de5695d6d33dff203f3b4c9e17789fdd63f6767aaa0bfc6730f7")
  @@ ("{\"a\":{\"a\":{},\"b\":{}},\"b\":1}" :> "af93a613300bcc59d1126c84c3c5b98e54ea30c5be0d697ccce8e789b9ac71b8")
  @@ ("{\"b\":1,\"a\":{\"a\":{},\"b\":{}}}" :> "9e22c0e90bc78af94fe4bb47d1e4eb9aeb42a5e20f55c899b60f60b3905f39ef")
  @@ ("{\"b\":1,\"a\":{\"b\":1,\"a\":1}}" :> "212bda60bb18067bdff3507423efc9b3fc09780e0f9c9f1de0033418235f4cad")
  @@ ("{\"b\":1,\"a\":{\"b\":1,\"a\":\"v\"}}" :> "f51cc2b342d230a885b4e2aff650ca6f2252ed4e66736a015fbae5d86255256d")
  @@ ("{\"b\":1,\"a\":{\"b\":1,\"a\":{}}}" :> "9dd6bfc60ff939863c6dfa5653efe3650ca6cb166a0a2e2429ae03be81f7a0b8")
  @@ ("{\"b\":1,\"a\":{\"b\":\"v\",\"a\":1}}" :> "65f0f3f1fb7c2237231e559b99b6ea29eb6d2e11e8a461a7882ddbf7d48fe292")
  @@ ("{\"b\":1,\"a\":{\"b\":\"v\",\"a\":\"v\"}}" :> "ebeb50bc084d6a605f8f285509414e5639ed4578942e8a87b0fd0b10d7a3f793")
  @@ ("{\"b\":1,\"a\":{\"b\":\"v\",\"a\":{}}}" :> "a2f82844970b2e1097c282f7d559526ebe31283805d300bb9d50321f726e0e36")
  @@ ("{\"b\":1,\"a\":{\"b\":{},\"a\":1}}" :> "bec64654ac207c53688e19f114e1fcfe62eecfcb14c65bca15a26c70ef6b809a")
  @@ ("{\"b\":1,\"a\":{\"b\":{},\"a\":\"v\"}}" :> "922df3084afea4371c4ea8bb61dd759563ea6b286491657a6771346c7fae428b")
  @@ ("{\"b\":1,\"a\":{\"b\":{},\"a\":{}}}" :> "e84290366a3a67b4d1a1d1986bf47ef2fd7eba256a3d3d66859426bd5e23899d")
  @@ ("{\"a\":{\"a\":{\"a\":1}},\"b\":\"v\"}" :> "c49e51ec69237eb274660a3058cf748dc8621f2812b3ea431e2e500fcf868705")
  @@ ("{\"b\":\"v\",\"a\":{\"a\":{\"a\":1}}}" :> "e244b1b7bc73ad1a64260aeedf265197687d0cb3fbc35a2dea33ea86e38a2648")
  @@ ("{\"a\":{\"a\":{\"a\":\"v\"}},\"b\":\"v\"}" :> "a93cfb2a56c522a9e1a713902dddf8aefae902474bd91eea4cdf3f831e6af875")
  @@ ("{\"b\":\"v\",\"a\":{\"a\":{\"a\":\"v\"}}}" :> "114d9042c1ce83e9df9719989145e3b6b3bd491c6be31e4309fab563116c99fe")
  @@ ("{\"a\":{\"a\":{\"a\":{}}},\"b\":\"v\"}" :> "7c540f1d8a91206a305687af703dd6f33cd040afa851bfd9daf7f63c7b8040a4")
  @@ ("{\"b\":\"v\",\"a\":{\"a\":{\"a\":{}}}}" :> "74665d0f07290c278a23f2d577fb8d1dbe0f79dd8210aefbac59c40681ed8730")
  @@ ("{\"a\":{\"a\":{\"b\":1}},\"b\":\"v\"}" :> "7a106a2d69f1847d7840739cfb2e497b98c580836a7ced547d8a5395c4d917ca")
  @@ ("{\"b\":\"v\",\"a\":{\"a\":{\"b\":1}}}" :> "160f042a740563d994acf42a930873ed84fb885d265a7bdb4d6bf150000e07f6")
  @@ ("{\"a\":{\"a\":{\"b\":\"v\"}},\"b\":\"v\"}" :> "29e1557892f6d7215f0d25db0316b3d5c91da2a9015b5a6c44a148743df20084")
  @@ ("{\"b\":\"v\",\"a\":{\"a\":{\"b\":\"v\"}}}" :> "eed71b773a2827ef987b005c58759134ce763499af97ef1a4fdccfeae08255b5")
  @@ ("{\"a\":{\"a\":{\"b\":{}}},\"b\":\"v\"}" :> "0a51485de632f26fde8d3f73731102af504d8f691f9615961a0dce4c25b55b69")
  @@ ("{\"b\":\"v\",\"a\":{\"a\":{\"b\":{}}}}" :> "c7c474d76c8222bf459dfc57c0768b16c871a5d18d6af4840dc7367a9367ef68")
  @@ ("{\"a\":{\"b\":{\"a\":1}},\"b\":\"v\"}" :> "a86d923e362d12b7ae0a5ef00dd0525167fa325f4f4375df09f7200a7e993b2c")
  @@ ("{\"b\":\"v\",\"a\":{\"b\":{\"a\":1}}}" :> "d126d228f4029d2a0a87ff15d33a481e452d348292a3d0088d1f2d1343625b1c")
  @@ ("{\"a\":{\"b\":{\"a\":\"v\"}},\"b\":\"v\"}" :> "679c74872c69c130db6fd60eb443f6f1a1e70e2f44598e956223e84870ccc07b")
  @@ ("{\"b\":\"v\",\"a\":{\"b\":{\"a\":\"v\"}}}" :> "a599e4d2fe16535a83dff87939985fa25d1ac62f4d4149348d692462af328342")
  @@ ("{\"a\":{\"b\":{\"a\":{}}},\"b\":\"v\"}" :> "327a50922084a1024d37b25abe1c94e6a3b203a71915ce8c9aaaa43f0b6a35d6")
  @@ ("{\"b\":\"v\",\"a\":{\"b\":{\"a\":{}}}}" :> "f676ebeb32f24969c59e95ba5e329487dc5beb4d5ad742014fb5ac33330daa91")
  @@ ("{\"a\":{\"b\":{\"b\":1}},\"b\":\"v\"}" :> "efce3088f209ef4a26900a2e4feca5a734ef43409feb5c90ef124b34790ff3f0")
  @@ ("{\"b\":\"v\",\"a\":{\"b\":{\"b\":1}}}" :> "79dacd65854dd6d8fd5c8d102145cee598ed36ee6efff2f0d515ca0c7f669b70")
  @@ ("{\"a\":{\"b\":{\"b\":\"v\"}},\"b\":\"v\"}" :> "cc6ca4812bdd6135dd1522751080d0be3a02ed4ce7439796a87ac5ba835741bb")

Sha256Digests07 ==
     ("{\"b\":\"v\",\"a\":{\"b\":{\"b\":\"v\"}}}" :> "db746106687419eea037a215a0816be38799afa649bf1d50969e616cf4049a3a")
  @@ ("{\"a\":{\"b\":{\"b\":{}}},\"b\":\"v\"}" :> "d2c119c74520b877b47a34ea18e123aacd9de77b26734c9976a4d9760e7c19dc")
  @@ ("{\"b\":\"v\",\"a\":{\"b\":{\"b\":{}}}}" :> "ef3e9591f406e5c31d8415d499f9b3258ae5a1d95925326b4bb8a6646a0cb32d")
  @@ ("{\"a\":{\"a\":1,\"b\":1},\"b\":\"v\"}" :> "ccbb357619cf71524cc4a787110eb364a1e9d4ee4308d6d8a4d7cee23868895e")
  @@ ("{\"b\":\"v\",\"a\":{\"a\":1,\"b\":1}}" :> "c5d280e7875d94b9d3fceac608b4bd01f0a72163d35dd73db6df777d3323123e")
  @@ ("{\"a\":{\"a\":1,\"b\":\"v\"},\"b\":\"v\"}" :> "15e2775ba66cd55a3301aca59c3c68d4ef94b152424a3bf7455f321845addb6b")
  @@ ("{\"b\":\"v\",\"a\":{\"a\":1,\"b\":\"v\"}}" :> "ed93055d1dd6f88a5e7d39c2543c365949621e217fd860b0d70e8611d3dc746a")
  @@ ("{\"a\":{\"a\":1,\"b\":{}},\"b\":\"v\"}" :> "a2f215134dda434459b793321dea1b02ef563e8dec274e468611bfc989810b1d")
  @@ ("{\"b\":\"v\",\"a\":{\"a\":1,\"b\":{}}}" :> "c122b856217ba8e935416e725fef99051074b146a37a633aab3cf0ef15cc39c8")
  @@ ("{\"a\":{\"a\":\"v\",\"b\":1},\"b\":\"v\"}" :> "b71698d4a794fd0a3fe3a543257cbe270d2bf7bf015394acd873dfa38efdb150")
  @@ ("{\"b\":\"v\",\"a\":{\"a\":\"v\",\"b\":1}}" :> "7b1946124fedb2894f534ed2cb1caeb6a6e4b4e80b0149cda907324db622d7e2")
  @@ ("{\"a\":{\"a\":\"v\",\"b\":\"v\"},\"b\":\"v\"}" :> "a538ba320247b2ddb029ef0c6aeeb23e3ceb23c3b77de33cef286de231350846")
  @@ ("{\"b\":\"v\",\"a\":{\"a\":\"v\",\"b\":\"v\"}}" :> "cbe1df9dd227a4319f5d25dafd90a8a7ec369da106917963f850041d5083ce55")
  @@ ("{\"a\":{\"a\":\"v\",\"b\":{}},\"b\":\"v\"}" :> "fe047f45a88f66612510779bd4c1cd3e0fbe7e7bddbb51bde85b3e0e7fc3cef5")
  @@ ("{\"b\":\"v\",\"a\":{\"a\":\"v\",\"b\":{}}}" :> "c97c89b326d858e3c3ebacc1917d69d9000bc8f20b352c7bdfc16298c542f325")
  @@ ("{\"a\":{\"a\":{},\"b\":1},\"b\":\"v\"}" :> "e0008a45fa24a00da2e92d44e9c71d7db06ce2d84a08de06b18a6d96ddef21c6")
  @@ ("{\"b\":\"v\",\"a\":{\"a\":{},\"b\":1}}" :> "4d34851269706023f7d342e9cc2560f10ebf4eafbd7889598ace81394da91f82")
  @@ ("{\"a\":{\"a\":{},\"b\":\"v\"},\"b\":\"v\"}" :> "ceeb5b709f10646295fdef8c0aa2f58cbaf87fe522c9780a05708f937a0f6cfd")
  @@ ("{\"b\":\"v\",\"a\":{\"a\":{},\"b\":\"v\"}}" :> "7cfbe9f278862bf50a3d5ddb356b8eb3eb88cb7257889fde2cbd48ff33b542f8")
  @@ ("{\"a\":{\"a\":{},\"b\":{}},\"b\":\"v\"}" :> "1595084e516ae1deaed013a64e3f7a58949e464f384ccde4a249909622d2a582")
  @@ ("{\"b\":\"v\",\"a\":{\"a\":{},\"b\":{}}}" :> "320279bff74757d6bd0bf20f9542b915adb4482bd46bfc94d66dc03f71868e38")
  @@ ("{\"b\":\"v\",\"a\":{\"b\":1,\"a\":1}}" :> "88edabb66fe49ecbc740711757a4f0c07cdfe873586a0f4ff1e5de9fd24111ee")
  @@ ("{\"b\":\"v\",\"a\":{\"b\":1,\"a\":\"v\"}}" :> "99d0b0f403906b81f867086dffa9eaa670f51bfdf10185b21f13203c0842ba50")
  @@ ("{\"b\":\"v\",\"a\":{\"b\":1,\"a\":{}}}" :> "55d0531e26048a42f3904211fd3e7913e378c9624dc50361e218013dc0dc1328")
  @@ ("{\"b\":\"v\",\"a\":{\"b\":\"v\",\"a\":1}}" :> "89dcd5806b7a94992bcd973aabc4fb80909f540787b3d61c20217ca95e5093d2")
  @@ ("{\"b\":\"v\",\"a\":{\"b\":\"v\",\"a\":\"v\"}}" :> "71ceb62e3dd0c4a43ead4e187d1122c5fa74c601ef28d08ee46560954e71045c")
  @@ ("{\"b\":\"v\",\"a\":{\"b\":\"v\",\"a\":{}}}" :> "2ae173c3877cb58003de488a3deedadb73214332f18cf547f78561bb3de488a1")
  @@ ("{\"b\":\"v\",\"a\":{\"b\":{},\"a\":1}}" :> "c74d08c4526118ba216a17928a697cd4d510d3c9370388e0bd960552bd913009")
  @@ ("{\"b\":\"v\",\"a\":{\"b\":{},\"a\":\"v\"}}" :> "b0b9e591bcfca535952fdfc2c31405eeb93301dff08f963e2e0a122b7ff53c3f")
  @@ ("{\"b\":\"v\",\"a\":{\"b\":{},\"a\":{}}}" :> "576f0f01336d8f7d0b33c6f948d68f10a98288bef3804048c2275ecaaa36be3c")
  @@ ("{\"a\":{\"a\":{\"a\":1}},\"b\":{}}" :> "27012326b9be96b416a2324d93e1a98a4966cc9e8014743186e2d9c6b34ce428")
  @@ ("{\"b\":{},\"a\":{\"a\":{\"a\":1}}}" :> "016acca48590421f7a3395b247f4b8005de20f72f34bc24f0f38733e3dda655d")
  @@ ("{\"a\":{\"a\":{\"a\":\"v\"}},\"b\":{}}" :> "67e42d66f0ba3fdcb3be3f48d2074ecb64ff776c17f245bf9f7c2da8a4673fd8")
  @@ ("{\"b\":{},\"a\":{\"a\":{\"a\":\"v\"}}}" :> "7819e73fca02ec8589d94cbfb7588d6de2ad223ce6ebe82f42abbef92f5caa6b")
  @@ ("{\"a\":{\"a\":{\"a\":{}}},\"b\":{}}" :> "146afca2391c5ef19862ba567f8347500dc829dbbf779de7d138497931c41dc2")
  @@ ("{\"b\":{},\"a\":{\"a\":{\"a\":{}}}}" :> "62bfcd49fc86e6a09a26e2be58e5b67be4eb5d5171c5dae15a51bd503dd273a4")
  @@ ("{\"a\":{\"a\":{\"b\":1}},\"b\":{}}" :> "c32eb46b2733100e8f13c37a48e1c939a311de5725885b2820b4a4e0ffb31da7")
  @@ ("{\"b\":{},\"a\":{\"a\":{\"b\":1}}}" :> "24d4b5dad2349713b50b4a7196f6775358fc99a48dc45a1b64dce87f93497a47")
  @@ ("{\"a\":{\"a\":{\"b\":\"v\"}},\"b\":{}}" :> "f3c3cd5e79fc99963d146be92e5c8f07b207d78b5f8c1a7ec2b45377befddbea")
  @@ ("{\"b\":{},\"a\":{\"a\":{\"b\":\"v\"}}}" :> "510b391ddf9c95571adbaf512340b4f2cdba96e5f7abfdc6ff8694d828bd307b")
  @@ ("{\"a\":{\"a\":{\"b\":{}}},\"b\":{}}" :> "973dbe3e2d8abbc05112ac1cd6f8ca127e91659545784a34c550f29ccfa84ce4")
  @@ ("{\"b\":{},\"a\":{\"a\":{\"b\":{}}}}" :> "34b6b7de3e35f443ecc78f5bd8b5be02935275a78b834ca34e8b1cb4d4864d0f")
  @@ ("{\"a\":{\"b\":{\"a\":1}},\"b\":{}}" :> "2e6b63d458d2de2cce5d081c689a3496570167fe97a79d9268315552a4001398")
  @@ ("{\"b\":{},\"a\":{\"b\":{\"a\":1}}}" :> "1b10c2cdd57d6a0077935568eb2fe6e3fc70e23d71a9ec55b66d021b87b009d2")
  @@ ("{\"a\":{\"b\":{\"a\":\"v\"}},\"b\":{}}" :> "82aab8c1cc22722130036eea9163243c4f3fabcc4ff990f1f502ab10bc99df09")
  @@ ("{\"b\":{},\"a\":{\"b\":{\"a\":\"v\"}}}" :> "2e595598fa5b231e925b8fec724e3eba22cbad0ad3eb29d2f0c6790bb6ed4dc5")
  @@ ("{\"a\":{\"b\":{\"a\":{}}},\"b\":{}}" :> "02d9d1ba4dd16a3286af3cffeed23e382caa70ede8c91f5fef49df3688e598c1")
  @@ ("{\"b\":{},\"a\":{\"b\":{\"a\":{}}}}" :> "7abbbf90d1a51787961b617696722faafcbd7d9b78c2e763be783106dde3594d")
  @@ ("{\"a\":{\"b\":{\"b\":1}},\"b\":{}}" :> "f252befbe0c25ae5f8e4ca60282838f05dd9ccbc0cc73d04ca1e654258da891e")
  @@ ("{\"b\":{},\"a\":{\"b\":{\"b\":1}}}" :> "7ec55c29d606ea8b0a6915fb191933daa1f41724ad2ee2b827f4f82d2af4333b")
  @@ ("{\"a\":{\"b\":{\"b\":\"v\"}},\"b\":{}}" :> "f50d2373d2914b7051b1df7caef19570e3a011f90bf48a1d5055c9f3fe3d0abd")
  @@ ("{\"b\":{},\"a\":{\"b\":{\"b\":\"v\"}}}" :> "16e8e53790e03396ce645e15f75632956a9ba2ecf52b96ce66236058b891e62d")
  @@ ("{\"a\":{\"b\":{\"b\":{}}},\"b\":{}}" :> "e745da70c3618ceafdec7690177f84d17d1bb0b91bcace688ca5902dd9d6776d")
  @@ ("{\"b\":{},\"a\":{\"b\":{\"b\":{}}}}" :> "e1873ec5e8fd12b64943670fbcfd7cb0b6956de67861607a2466d5ab1bf2783b")
  @@ ("{\"a\":{\"a\":1,\"b\":1},\"b\":{}}" :> "c6cadc8baf860e160bde8360975d659dd87030d8f27408c9fd3ea083014c1bbf")
  @@ ("{\"b\":{},\"a\":{\"a\":1,\"b\":1}}" :> "7d3f445b95c74aedd62ae98057c55572337da2af852843daeebd3c4ac0e29e64")
  @@ ("{\"a\":{\"a\":1,\"b\":\"v\"},\"b\":{}}" :> "7db893094842f3235685481952d39ffacfe994b2706634e6d071b781bcf29960")
  @@ ("{\"b\":{},\"a\":{\"a\":1,\"b\":\"v\"}}" :> "39bf3c6f45759c8dd3da44c5603ab9a720f57c86a07ad469b1855370a5d7f739")
  @@ ("{\"a\":{\"a\":1,\"b\":{}},\"b\":{}}" :> "bc00c1e215d102d329e24fe7ebff292371a4a5bb7dae0539f3983487818c6a3b")
  @@ ("{\"b\":{},\"a\":{\"a\":1,\"b\":{}}}" :> "5345aaad28fc3dbac58296e4e3a6f8f534d36da258c961e8d75a914dc3dd516b")
  @@ ("{\"a\":{\"a\":\"v\",\"b\":1},\"b\":{}}" :> "7b88c8d8ca34d99a4ad0f3a8d121f68ad7edb435093b9fbdf6bd536a33de1b48")
  @@ ("{\"b\":{},\"a\":{\"a\":\"v\",\"b\":1}}" :> "201337c39da1a72409d02f4db381df40d8259ce410f22fbbe318f3538aa7d115")
  @@ ("{\"a\":{\"a\":\"v\",\"b\":\"v\"},\"b\":{}}" :> "971f8fdd50e56e12668282420a4c0560962381bdec7c42888e31c382ab4a2571")
  @@ ("{\"b\":{},\"a\":{\"a\":\"v\",\"b\":\"v\"}}" :> "ad4e10e6637457132a15289f7970446bce72123eb4d5028925ab922dc7e097f7")
  @@ ("{\"a\":{\"a\":\"v\",\"b\":{}},\"b\":{}}" :> "7e2d97501c377db2ec51e4700ac5ad479e5a32459b0f30358d66f51f4f516186")
  @@ ("{\"b\":{},\"a\":{\"a\":\"v\",\"b\":{}}}" :> "129bbdebd11de92f1ccb559e12997ab4512746852211a0f0a101202683a772d5")
  @@ ("{\"a\":{\"a\":{},\"b\":1},\"b\":{}}" :> "8fd2737d98e6f5983176c4db74427dfd028b6b64ff039ef01c8630fe8378e151")
  @@ ("{\"b\":{},\"a\":{\"a\":{},\"b\":1}}" :> "83ccd9d533949928e26b117ab3553ff1446636ffd4f700f0036e3d0e84896775")
  @@ ("{\"a\":{\"a\":{},\"b\":\"v\"},\"b\":{}}" :> "bc4c00d99df954670870b8fc7ccdf365b433ae4fb8265dc65bac29ea8de47bab")
  @@ ("{\"b\":{},\"a\":{\"a\":{},\"b\":\"v\"}}" :> "0843e5212bb92aa20c1d1b9eb3ab573316b18ffdab4184e33bfd17b4a965ca5b")
  @@ ("{\"a\":{\"a\":{},\"b\":{}},\"b\":{}}" :> "7ca60e0049fd1f1f8fa7e5db7ae8879bc308ff5ea64a1b9707956ff101ca48a2")
  @@ ("{\"b\":{},\"a\":{\"a\":{},\"b\":{}}}" :> "efc052585faf78fe656f8c34b849c87c231cff0ed3119ca41214ce64f5f0a5b5")
  @@ ("{\"b\":{},\"a\":{\"b\":1,\"a\":1}}" :> "90940c5f02ea2714faa647934997534ac601fc9422ed8b8ef69ff002ac68031d")
  @@ ("{\"b\":{},\"a\":{\"b\":1,\"a\":\"v\"}}" :> "1a48b205b45d456637db349da39abf06e23441a506e74d24b13c7448a19991f8")
  @@ ("{\"b\":{},\"a\":{\"b\":1,\"a\":{}}}" :> "a4d718c1e456ecb83829f0e3d1d246a5378ee5a0d6b68255dbd2d9623589d76e")
  @@ ("{\"b\":{},\"a\":{\"b\":\"v\",\"a\":1}}" :> "e1ce7a59852a2f736a61574f61b5454252c8c7dc1cdaa91d719197740c935fa0")
  @@ ("{\"b\":{},\"a\":{\"b\":\"v\",\"a\":\"v\"}}" :> "8bfb889f0b5ed279d767395461e9bbdb2771e932b1d2d365d9df8181c5588b27")
  @@ ("{\"b\":{},\"a\":{\"b\":\"v\",\"a\":{}}}" :> "f3a0a49a16b3b592e5018a6ac5360b9822b44086a9e5985b470dc880f65526cd")
  @@ ("{\"b\":{},\"a\":{\"b\":{},\"a\":1}}" :> "dece306f6111d0ba54160467ddb1f4053d0c59c46b89aae076df1c1f3ef987c2")
  @@ ("{\"b\":{},\"a\":{\"b\":{},\"a\":\"v\"}}" :> "4c9a71fda139f0972bdd1b1b4fb78859294363ed073d87b7851249252cf28946")
  @@ ("{\"b\":{},\"a\":{\"b\":{},\"a\":{}}}" :> "ecd761493724e1f03c8e01705fac3cabde69261aed288fe0e1b649c4f98291cb")
  @@ ("{\"a\":{\"a\":1},\"b\":{\"a\":1}}" :> "6de8376f45c401f1cfb27f9c65edae6096c43b46b212bce12dfbfae1e859d1c1")
  @@ ("{\"a\":{\"a\":1},\"b\":{\"a\":\"v\"}}" :> "1e21f0156b1aff15c97a44ca61d35d06ca8dc3ddfc2972516b770c361d0ab0a3")
  @@ ("{\"a\":{\"a\":1},\"b\":{\"a\":{}}}" :> "3421e1c790186cb1c5ef429822d2f2553265d0f5318db3b0f41c60bfbc1345aa")
  @@ ("{\"a\":{\"a\":1},\"b\":{\"b\":1}}" :> "4d83cf78149cd213e560fe4ff5de6373eee86dd15d6542e32feb67246b86e2f9")
  @@ ("{\"a\":{\"a\":1},\"b\":{\"b\":\"v\"}}" :> "f85e87f5b3460ce747d2ef69317fe90ab72c634db84d820747d65046e58df7fc")
  @@ ("{\"a\":{\"a\":1},\"b\":{\"b\":{}}}" :> "77658a1762ee5c411acbce2d8e39302bd52e1344d717d8bfb2d49cb54a164d28")
  @@ ("{\"a\":{\"a\":\"v\"},\"b\":{\"a\":1}}" :> "5b2ddc0659c5bb836205452c62b4c5bf8a16e4d6263fb2413554697eae30dd7a")
  @@ ("{\"a\":{\"a\":\"v\"},\"b\":{\"a\":\"v\"}}" :> "14afeccc38f68c32f245465785b132b20f53fc5201e1f76ce896f6e0652c0c31")
  @@ ("{\"a\":{\"a\":\"v\"},\"b\":{\"a\":{}}}" :> "eb854ebe49ed270922cd08c2eb84ded3f1b4da1fb011886d63578164c9fe27be")
  @@ ("{\"a\":{\"a\":\"v\"},\"b\":{\"b\":1}}" :> "475e7b8e1d30e6ad68bc96c89b7e771a2333765f87eb3cad5ea75ec2f2472a96")
  @@ ("{\"a\":{\"a\":\"v\"},\"b\":{\"b\":\"v\"}}" :> "c0ac0ffde582c7bcdfd786afe0eb6d9c348fe0fac9a8f99ffd9801efa6cccfc9")
  @@ ("{\"a\":{\"a\":\"v\"},\"b\":{\"b\":{}}}" :> "1b5222b6bb65f1d29557eab1bfcbd7c142830e33a7d6a4351ce08af0d781889b")
  @@ ("{\"a\":{\"a\":{}},\"b\":{\"a\":1}}" :> "5de9fe7a6fc42c2f28f03d2ab8776cad2f71deed41213e868d3d08a745be65b7")
  @@ ("{\"a\":{\"a\":{}},\"b\":{\"a\":\"v\"}}" :> "9055282707af80c27f0ad50b52c41fc170dae9e67d60baaae6e888b8748ce37d")
  @@ ("{\"a\":{\"a\":{}},\"b\":{\"a\":{}}}" :> "11b4231f1973fce78e57711ef093108ec52ec0361ca1ea4fb2a76ece171bfe57")
  @@ ("{\"a\":{\"a\":{}},\"b\":{\"b\":1}}" :> "4ed7ecb11fc46284c99b6c40148f5483816efb133990d38dfab2973cfde0f48b")
  @@ ("{\"a\":{\"a\":{}},\"b\":{\"b\":\"v\"}}" :> "0f2fefd57419a86c22c5a4d3c6379d9ca7e802774fbea3799b2d0aa7116d3712")
  @@ ("{\"a\":{\"a\":{}},\"b\":{\"b\":{}}}" :> "bdcb56afb5fcd0cf4f676e9ec07d66942ff46e37b54739ebca995f8819fe7d70")
  @@ ("{\"a\":{\"b\":1},\"b\":{\"a\":1}}" :> "c0c7057a923193490ad301dacb855eeb7eea26fcffd2900699ea78095203c9fc")

Sha256Digests08 ==
     ("{\"a\":{\"b\":1},\"b\":{\"a\":\"v\"}}" :> "25dcae950e3fbca814b23cc2908dc660a8d7ab003c50b84b5e916855d14a5a21")
  @@ ("{\"a\":{\"b\":1},\"b\":{\"a\":{}}}" :> "8891ef58d2ddb165949b045ad9edb56fc05be6fc8f48ac42fb490508b6da560e")
  @@ ("{\"a\":{\"b\":1},\"b\":{\"b\":1}}" :> "910e5b8b0f7fc87fd5c08dc44f70fcdb31530fe6a087a47a3a03d7902562e840")
  @@ ("{\"a\":{\"b\":1},\"b\":{\"b\":\"v\"}}" :> "38a40c40d4f5a51e760c5935bcb0fc053aeea9659f6e6398756d4bc86c550002")
  @@ ("{\"a\":{\"b\":1},\"b\":{\"b\":{}}}" :> "37681d8dd96a7b350cf76ac0c3e92ca5202cc1af7968ec55a102f79fab01e888")
  @@ ("{\"a\":{\"b\":\"v\"},\"b\":{\"a\":1}}" :> "f543975bd3d086e8a355687270f2e4fc1eeb805180aa9f64de002db4cea30c18")
  @@ ("{\"a\":{\"b\":\"v\"},\"b\":{\"a\":\"v\"}}" :> "c092589e4ecdf99da1b33aa907fae3d3e0edffe099a3d327d1be857b5d3e94af")
  @@ ("{\"a\":{\"b\":\"v\"},\"b\":{\"a\":{}}}" :> "2130583fa19dc9d58391447e71632a6e0c7aee6fd46a658d34b54795d5a54156")
  @@ ("{\"a\":{\"b\":\"v\"},\"b\":{\"b\":1}}" :> "a49969ae005e55183e9855e09ed0427cb1637853af86c8d4e20ca6657115884c")
  @@ ("{\"a\":{\"b\":\"v\"},\"b\":{\"b\":\"v\"}}" :> "3ff8d978752f6f398a7b7823c43731460cabcb668c3db9eaf4b3c56e387b670e")
  @@ ("{\"a\":{\"b\":\"v\"},\"b\":{\"b\":{}}}" :> "53380f568eb7dbd2aa1866fdb635f1892478a67858002cb0dcf3e5e38260e72b")
  @@ ("{\"a\":{\"b\":{}},\"b\":{\"a\":1}}" :> "0ec8fb19e8b1e8baa5af80c9ff9185760ce478509a25bc02a03d4a7659c93b3e")
  @@ ("{\"a\":{\"b\":{}},\"b\":{\"a\":\"v\"}}" :> "a47b4f079ae3c4031edb9c9f0f59d4640c7523f252a4df37b96a390acdb41bee")
  @@ ("{\"a\":{\"b\":{}},\"b\":{\"a\":{}}}" :> "af18da3efec1ecf8117fa4b133faa6dbbeb08c1a19bacd1076bb68739396836b")
  @@ ("{\"a\":{\"b\":{}},\"b\":{\"b\":1}}" :> "dd3a03a91504f538577e3a951d777cc3d9ce726c166951e20e58ebbfbc16e952")
  @@ ("{\"a\":{\"b\":{}},\"b\":{\"b\":\"v\"}}" :> "cf6bdd1b491e7d684778233e0d306aaa5dd07e7a58201133c67bc22b27eac42d")
  @@ ("{\"a\":{\"b\":{}},\"b\":{\"b\":{}}}" :> "aed9082a9b456d1e9d543189678e92dc74861206d9ab90620559720afe69ecf2")
  @@ ("{\"b\":{\"a\":1},\"a\":{\"a\":1}}" :> "cd556245fb8641d01b725711c67588fbb11e294a04711c0665be84a4eca042d1")
  @@ ("{\"b\":{\"a\":1},\"a\":{\"a\":\"v\"}}" :> "eed3084155b794121c25528abcd374983913961fdc22509e12627cee1da9ee26")
  @@ ("{\"b\":{\"a\":1},\"a\":{\"a\":{}}}" :> "a072f82faa767cac7b38972f25bf21de826019e5297b0ed35023bd8cc32ffbcf")
  @@ ("{\"b\":{\"a\":1},\"a\":{\"b\":1}}" :> "a47febbc86fe4aa6c5eee292fdbfa1abefd64fe4cb960ba7f4b845cacf1e9f67")
  @@ ("{\"b\":{\"a\":1},\"a\":{\"b\":\"v\"}}" :> "034c044f85ba476ac8c0e17e0a3dfb45c374ce0755ef095d16a6d97060e8b9a5")
  @@ ("{\"b\":{\"a\":1},\"a\":{\"b\":{}}}" :> "3ebd5ede549fde951746341a402fefe8b96ef45dc97cbf68b1631569cf7d2fbe")
  @@ ("{\"b\":{\"a\":\"v\"},\"a\":{\"a\":1}}" :> "0866a17333eae0a9aa0b6cfc63e97c2941ea0d241ea193f30b92aa771dd2ebce")
  @@ ("{\"b\":{\"a\":\"v\"},\"a\":{\"a\":\"v\"}}" :> "311f2835b5fb92e1f5957f8f46ab77a6c15ffd2443d949d2492da8c164d5b508")
  @@ ("{\"b\":{\"a\":\"v\"},\"a\":{\"a\":{}}}" :> "4dcee0b314b471a4fd9bd45bab34cbe31984e3c8171c3283a86a4d698a7a6c8d")
  @@ ("{\"b\":{\"a\":\"v\"},\"a\":{\"b\":1}}" :> "d6cd7a78f8391e1b7ea2202c123299a3d4893c97b1760e1e782673eb2f0ed25e")
  @@ ("{\"b\":{\"a\":\"v\"},\"a\":{\"b\":\"v\"}}" :> "5f0577098dc0802560612f47ec7e6c7bfc8552e184b393403dd1880fc00caba9")
  @@ ("{\"b\":{\"a\":\"v\"},\"a\":{\"b\":{}}}" :> "8dc382fdea7eb8ebefea2d16729b832fa358affddbc63c6a375bed717191593e")
  @@ ("{\"b\":{\"a\":{}},\"a\":{\"a\":1}}" :> "307fff3045bd93c71982feecd10d890713804b386cd6d56a5da5d543c89c0815")
  @@ ("{\"b\":{\"a\":{}},\"a\":{\"a\":\"v\"}}" :> "8c081716bd4b71119fc40f2e0c49da1b4890cc4cf5ba59631095b634e6cac963")
  @@ ("{\"b\":{\"a\":{}},\"a\":{\"a\":{}}}" :> "b4c249e1cefec06a033b4e142f4d89f9b40b29a94f4e6c45dc37a82692657d93")
  @@ ("{\"b\":{\"a\":{}},\"a\":{\"b\":1}}" :> "30c9d53082f9fcc02a72168dc3ce9c59f9b3f0c9e97c7e6913cfcdc0331bbbd6")
  @@ ("{\"b\":{\"a\":{}},\"a\":{\"b\":\"v\"}}" :> "a4b841f49590f14d130f3616c6ae7b39c28ed83ade96d4c47fcd4bd4662765a6")
  @@ ("{\"b\":{\"a\":{}},\"a\":{\"b\":{}}}" :> "730f5a88fbc191e49bb7c01fdf7c01febf64c1df64ec65f06591a2040fb17dd1")
  @@ ("{\"b\":{\"b\":1},\"a\":{\"a\":1}}" :> "768b95563afbd0d484c3f03ecaf9d186738d81dac4c005c29936c0054ab2defc")
  @@ ("{\"b\":{\"b\":1},\"a\":{\"a\":\"v\"}}" :> "c586e918b2b31a12e56e5088983e3e4af328ebf8e60f09b09e9f51268bd1978d")
  @@ ("{\"b\":{\"b\":1},\"a\":{\"a\":{}}}" :> "7cf31e31178a7a6052eb5d03e537ae6648c844353bd68f403fac9195947ad5ae")
  @@ ("{\"b\":{\"b\":1},\"a\":{\"b\":1}}" :> "d8a3c5917c8e394906388b4efc088ab1f8bccb83daec1489e1df45b388d3f90c")
  @@ ("{\"b\":{\"b\":1},\"a\":{\"b\":\"v\"}}" :> "f8067d6fb9d04c9e82d61c34fde0380134ff5d7fd9c39e8c575eab4444b1ca27")
  @@ ("{\"b\":{\"b\":1},\"a\":{\"b\":{}}}" :> "1800a215b718bb1a346b0667a568dc7c164e7654700d1d746afde96b567db1ea")
  @@ ("{\"b\":{\"b\":\"v\"},\"a\":{\"a\":1}}" :> "3a7487f1e2d322d366ad19e0bc76040bb156c572c8a34970a4d3bc169cacd4b5")
  @@ ("{\"b\":{\"b\":\"v\"},\"a\":{\"a\":\"v\"}}" :> "94cba68a2c9a2e5cba4192fb9bad5c6f8714a2f54024bbb766ffd18cba52ee60")
  @@ ("{\"b\":{\"b\":\"v\"},\"a\":{\"a\":{}}}" :> "ea02fecc84c1cbf33bc799e0ec7d17d4f48ddd4e438791374848c7f97bba369d")
  @@ ("{\"b\":{\"b\":\"v\"},\"a\":{\"b\":1}}" :> "06e971aa3e125e1128229f699aafe9125470b6acbf8ffe820ee0018d69c4db8d")
  @@ ("{\"b\":{\"b\":\"v\"},\"a\":{\"b\":\"v\"}}" :> "f8cfc948b1bf147012b18d151bcccd36775e900206aca041d92e551c95794988")
  @@ ("{\"b\":{\"b\":\"v\"},\"a\":{\"b\":{}}}" :> "1ba5d213b0f47f5c018f78257b01785ddeae7c818cf1e02c197ab520d92131ef")
  @@ ("{\"b\":{\"b\":{}},\"a\":{\"a\":1}}" :> "70e72f9ceed739d3afd5907e18ac3ad9836a2c19b21b09b848e25313551de97a")
  @@ ("{\"b\":{\"b\":{}},\"a\":{\"a\":\"v\"}}" :> "6b7cb553c668a1d3d7cd37c78fe421489539a0a7637da154da51a74296cf3db4")
  @@ ("{\"b\":{\"b\":{}},\"a\":{\"a\":{}}}" :> "ab66bfcd1c5364a6a2638678a340979a8781871d04c6e02329b542a7bfd3a8b9")
  @@ ("{\"b\":{\"b\":{}},\"a\":{\"b\":1}}" :> "7059953c86f0e1916cf1903543d386aa1c0e46abca14be959f5a04b4f795c799")
  @@ ("{\"b\":{\"b\":{}},\"a\":{\"b\":\"v\"}}" :> "54655a03a4b4d79343c9337d2ba07bcf3bb49a5049cf0bb75c390fc0eaa30b96")
  @@ ("{\"b\":{\"b\":{}},\"a\":{\"b\":{}}}" :> "7dfb664fcf9146e7265bcc0881a0da8c39020dd31bed28440ebadf6204c9bda2")
  @@ ("{\"a\":{\"b\":1,\"a\":1},\"b\":1}" :> "b0a8f695533bccd403de07da9b409966f981b2b3bfd7c298331a86d107ab07a7")
  @@ ("{\"a\":{\"b\":1,\"a\":1},\"b\":\"v\"}" :> "b7dd0d9176a227943052a568a16f8a93296d4108bcccaa451b38ca5270c51dc0")
  @@ ("{\"a\":{\"b\":1,\"a\":1},\"b\":{}}" :> "a80cd40bd3cd6765cd6076955705a2c1f4c1d1df0355f2606fa97feeb16a61a9")
  @@ ("{\"a\":{\"b\":1,\"a\":\"v\"},\"b\":1}" :> "ea5b931f98fb747ec22c8e72ea7023ed9cf762b9a85894c84cfedfdbb23df15e")
  @@ ("{\"a\":{\"b\":1,\"a\":\"v\"},\"b\":\"v\"}" :> "cdefeebed427741aee6b28c8a7a3412551f1f7b0685978f931a8e01ad13762d1")
  @@ ("{\"a\":{\"b\":1,\"a\":\"v\"},\"b\":{}}" :> "f6957875ded447ae7d6fb5e4c851d002231426776560b9bf516345200044639c")
  @@ ("{\"a\":{\"b\":1,\"a\":{}},\"b\":1}" :> "bfa84cf33723946ae08c609cb87f294857ef8a078eff242888d0ece3a58b7bad")
  @@ ("{\"a\":{\"b\":1,\"a\":{}},\"b\":\"v\"}" :> "be7f15f0ebf7d97e8e6199f1f09d3bb17d85f280ed59511f310f0e7d3a034e6c")
  @@ ("{\"a\":{\"b\":1,\"a\":{}},\"b\":{}}" :> "aafeaf6635ea5bb05ad74983dbcc554b6f79828c4c82089fa79abe065fd217cd")
  @@ ("{\"a\":{\"b\":\"v\",\"a\":1},\"b\":1}" :> "5df266108f67cbacaf1103407a37571e1abfb128e7cd9307202e0104ddeb6e17")
  @@ ("{\"a\":{\"b\":\"v\",\"a\":1},\"b\":\"v\"}" :> "ed47b78587eebc20c04c9ca6e590387a0a6193bd63a71d9b2de1a55448824aac")
  @@ ("{\"a\":{\"b\":\"v\",\"a\":1},\"b\":{}}" :> "415747a9f1ca5f9ae43e30022dda2662026852e798a4cc36e704e0f6da824363")
  @@ ("{\"a\":{\"b\":\"v\",\"a\":\"v\"},\"b\":1}" :> "8c4fb4b4375cd726da24c06b2dad24b1d01a08a34562971f0434c75e6d86c6c8")
  @@ ("{\"a\":{\"b\":\"v\",\"a\":\"v\"},\"b\":\"v\"}" :> "57067eff1bff067354aa631255e62020ad23b8dee6dcbbed22965fdf750b89b0")
  @@ ("{\"a\":{\"b\":\"v\",\"a\":\"v\"},\"b\":{}}" :> "4367c5daf766bd73f72acc01650d2d736cf0f242907b9bd84c898a7519e11354")
  @@ ("{\"a\":{\"b\":\"v\",\"a\":{}},\"b\":1}" :> "b1a676ce40d704f67dd2b2bb0c6342c0b83da7ec64da7829099f2c37ba27d69a")
  @@ ("{\"a\":{\"b\":\"v\",\"a\":{}},\"b\":\"v\"}" :> "39abb518d4dc7929b4e4a6bb08b668939dc465f208aa28ac256f24db0018f8ed")
  @@ ("{\"a\":{\"b\":\"v\",\"a\":{}},\"b\":{}}" :> "99470bfb00a1e0046dc7356f46d0f7bbcfb25fa9bbb5577c80e7c952ca1e31c5")
  @@ ("{\"a\":{\"b\":{},\"a\":1},\"b\":1}" :> "e378b3320373c6938fea666226a2dc2e67d81a39d18adc86c7f85293ac95a5a9")
  @@ ("{\"a\":{\"b\":{},\"a\":1},\"b\":\"v\"}" :> "1d733f90826016915f5f8e417f584b1000ede048578e1d71cca7715caaae96b8")
  @@ ("{\"a\":{\"b\":{},\"a\":1},\"b\":{}}" :> "93497cbda96fe4186e432020e29af80a8e176d02afd8ff99f7d158dbee255b86")
  @@ ("{\"a\":{\"b\":{},\"a\":\"v\"},\"b\":1}" :> "5593c5d2acb80d8b0d1e5a29c1dce63128b72ac963b5fe051ac9510de873a43f")
  @@ ("{\"a\":{\"b\":{},\"a\":\"v\"},\"b\":\"v\"}" :> "80602f2e44cc3817e1be63c2199c4e456f09e2c608e065f2bc00c81752017cf5")
  @@ ("{\"a\":{\"b\":{},\"a\":\"v\"},\"b\":{}}" :> "42c283aab7012145fd9a0d079191e6f8036ae4acf8f9cf158f35dfa2d434da4c")
  @@ ("{\"a\":{\"b\":{},\"a\":{}},\"b\":1}" :> "d15e38b8812b0c3016e748edfc6c7e550e557c097fc0c48dbb4eed18919fe0e8")
  @@ ("{\"a\":{\"b\":{},\"a\":{}},\"b\":\"v\"}" :> "6b02b0a3926fc0778091b01d9762bf3740073706c87c0e4f7b79e66ccda0097f")
  @@ ("{\"a\":{\"b\":{},\"a\":{}},\"b\":{}}" :> "7e5334418ffb8a032709c99212b00462672676ca09abdee77f27b81e8dcd0783")
  @@ ("{\"b\":{\"a\":{\"a\":1}},\"a\":1}" :> "6baa9250279e2f5b5a45247dd2b6e6939b5445b922ab4453cb1267fa9c7c9623")
  @@ ("{\"b\":{\"a\":{\"a\":1}},\"a\":\"v\"}" :> "3d8d1be52992f6cded300d055f736f4852a74c8e6cfedcb8eafbda8c04b6f2ad")
  @@ ("{\"b\":{\"a\":{\"a\":1}},\"a\":{}}" :> "6dce90c899302b76dc02999bc9c098dfb181ba244eee26824a3fb6326e9cdf4b")
  @@ ("{\"b\":{\"a\":{\"a\":\"v\"}},\"a\":1}" :> "eab24e5e7fcf26cee57f09705a2f91807b8d6e3858b92d5505a48a2ce00883f6")
  @@ ("{\"b\":{\"a\":{\"a\":\"v\"}},\"a\":\"v\"}" :> "327ad0a68478f8906fc47f98ceae78d4cfa6440ceb6ba6b9d932824a1561286b")
  @@ ("{\"b\":{\"a\":{\"a\":\"v\"}},\"a\":{}}" :> "ab67aa0cdd1e3a8dcf9c638b690d5761f36ed0e49dcc8884636a9a95da94541b")
  @@ ("{\"b\":{\"a\":{\"a\":{}}},\"a\":1}" :> "8edc1414597c3096a0e3318a77e12cbe5fd5c296ce8ef32b65234c742e675c47")
  @@ ("{\"b\":{\"a\":{\"a\":{}}},\"a\":\"v\"}" :> "26eb74aa1175adf8d0d953ea57fc185c26b9cb10c3f5888cc36951c2d1535b90")
  @@ ("{\"b\":{\"a\":{\"a\":{}}},\"a\":{}}" :> "e84df983a44413f47d9a160327bd907ddef106c6ae259ace22539fce662e40d8")
  @@ ("{\"b\":{\"a\":{\"b\":1}},\"a\":1}" :> "f468c7887490c9911e8b8e95f2db84c2665c6020809b0df2643c05a633b8c201")
  @@ ("{\"b\":{\"a\":{\"b\":1}},\"a\":\"v\"}" :> "f10fbc4a2c10d12665b74bb3debb025d94c720b770459fcb8fb782f5d347f239")
  @@ ("{\"b\":{\"a\":{\"b\":1}},\"a\":{}}" :> "bb3c476bd2916e147d989aaa0c85a4e812f4208a4282607c41eeab61fe1e5071")
  @@ ("{\"b\":{\"a\":{\"b\":\"v\"}},\"a\":1}" :> "f93ed715116a0f752d791b77de9bfa9e22e2b31b40e47147847c03c91128046e")
  @@ ("{\"b\":{\"a\":{\"b\":\"v\"}},\"a\":\"v\"}" :> "ef6d1df28ae79208c2fcb602a36d36a8b3366912ccb9339ba38c2dbd469b798b")
  @@ ("{\"b\":{\"a\":{\"b\":\"v\"}},\"a\":{}}" :> "9475b5680560d778e85a7462909669cbd879a8369e2f7b9375a889bfdd3444f4")
  @@ ("{\"b\":{\"a\":{\"b\":{}}},\"a\":1}" :> "8e96c252883427b85dc4388f8e31cfcf95fad3068ade7f1004a177566ac3ecde")
  @@ ("{\"b\":{\"a\":{\"b\":{}}},\"a\":\"v\"}" :> "ca1dae3241a7e880b14ba1bc74d6b13f0582c94de924f3db487ea5b5833cc9fc")
  @@ ("{\"b\":{\"a\":{\"b\":{}}},\"a\":{}}" :> "03279ef0381aca59dc13aa49b149a6ceb6fd6c4ac83f08cb79a3f3e83e93a313")
  @@ ("{\"b\":{\"b\":{\"a\":1}},\"a\":1}" :> "f454530f2a24e7bec9d8774d2bc4547b46b638407e57f3ef5ee6a26c1016bd7d")
  @@ ("{\"b\":{\"b\":{\"a\":1}},\"a\":\"v\"}" :> "684ca4dcdd949883e09e276f0c3dd3ca1f7c8f3f55fdd1fca81a8734a0c9afe6")

Sha256Digests09 ==
     ("{\"b\":{\"b\":{\"a\":1}},\"a\":{}}" :> "4d34498919e00b97259d8866bed80a528524058d973ad6414c298d27e7effe43")
  @@ ("{\"b\":{\"b\":{\"a\":\"v\"}},\"a\":1}" :> "904a37ecfd7b9dec48c5bc41903188d341d4c6328a27f47d8f1bdf5a126df9aa")
  @@ ("{\"b\":{\"b\":{\"a\":\"v\"}},\"a\":\"v\"}" :> "452e75cdd3487a98ce8b199b67495496e9d748ddcfb78c10e10a5e33b9fe4ffe")
  @@ ("{\"b\":{\"b\":{\"a\":\"v\"}},\"a\":{}}" :> "b6c4f06492be3d39f3696009fdf5188c05ff341f0379d9c78bf33806e6609fbf")
  @@ ("{\"b\":{\"b\":{\"a\":{}}},\"a\":1}" :> "f984793446976ce47ddae60acd3b9d07519e45dbb7a1fa0e24ac52009a2d1e59")
  @@ ("{\"b\":{\"b\":{\"a\":{}}},\"a\":\"v\"}" :> "2923b39834188f2bd0130cc20070044194ff77811a99520e14beb60727f2c488")
  @@ ("{\"b\":{\"b\":{\"a\":{}}},\"a\":{}}" :> "0667b1e66dcd69ef4ba10c03c5f0e00105f829f9c91d9afe921532b9184f9dd1")
  @@ ("{\"b\":{\"b\":{\"b\":1}},\"a\":1}" :> "7aa487ee5b370be494352336aab7df8a274a150917cb21b00792bb6a71dd639d")
  @@ ("{\"b\":{\"b\":{\"b\":1}},\"a\":\"v\"}" :> "e648b60ff74535f94aa44ab03ed246b0831388acd3ffd7078ec292261d5ce04e")
  @@ ("{\"b\":{\"b\":{\"b\":1}},\"a\":{}}" :> "7563541447d55ec8c632427d0294c3fd0d1bbfbb7630fa6e66372e80ea297c65")
  @@ ("{\"b\":{\"b\":{\"b\":\"v\"}},\"a\":1}" :> "03bef354bea1d4c434c3a25504ef57b87ee7bcb99f45056cdd6ed5a4dfe3ad0d")
  @@ ("{\"b\":{\"b\":{\"b\":\"v\"}},\"a\":\"v\"}" :> "090f011d885d9ce2d8954f5921b06edb732a9c31c8d1fc896d4e1c029eaa584c")
  @@ ("{\"b\":{\"b\":{\"b\":\"v\"}},\"a\":{}}" :> "c909d1b27e835ad67bd295642e8a70b3f16c7d222fab7ce0d8af5f7fa9d51a9a")
  @@ ("{\"b\":{\"b\":{\"b\":{}}},\"a\":1}" :> "d28155597fff565a6f6abc68b7688920994b1751f5e094e850a688121c1f3e43")
  @@ ("{\"b\":{\"b\":{\"b\":{}}},\"a\":\"v\"}" :> "85cfe45fedd302ce71720bcffe47373ea3372715ab8d2f62f1d7e3d9c4dbba4f")
  @@ ("{\"b\":{\"b\":{\"b\":{}}},\"a\":{}}" :> "b978d8b40a7a1d876f058afa4793290f2d1b611180248762693d716bac8c6ec4")
  @@ ("{\"b\":{\"a\":1,\"b\":1},\"a\":1}" :> "d06a6dde03c0fe99c558e5ff610774a17edd519229ced102c891ce8e1b593c84")
  @@ ("{\"b\":{\"a\":1,\"b\":1},\"a\":\"v\"}" :> "ae3ce393cc48411fa606a641c701b13f273683d25bc051c09e8993767b19c396")
  @@ ("{\"b\":{\"a\":1,\"b\":1},\"a\":{}}" :> "69a0a13c0e03951c65f23712231db89a95abb11e6a772cea26bc0e01c2d2133a")
  @@ ("{\"b\":{\"a\":1,\"b\":\"v\"},\"a\":1}" :> "be9615f5721d1cab0bd35e6c64c9d579bc9ab9853294d0a8af9c4407a0c2a87f")
  @@ ("{\"b\":{\"a\":1,\"b\":\"v\"},\"a\":\"v\"}" :> "869beb152e5b601dabaae28c0cf6fdee8926686c10af3aa616f409f438efdadc")
  @@ ("{\"b\":{\"a\":1,\"b\":\"v\"},\"a\":{}}" :> "6598f8eb72ef366143b1f11eee4406dff11f051d09e92850b642c3977f66e2ec")
  @@ ("{\"b\":{\"a\":1,\"b\":{}},\"a\":1}" :> "776eb6f498b98626c76cfee98718793a81e7aab6b889842ea0ccf6e3d5d66725")
  @@ ("{\"b\":{\"a\":1,\"b\":{}},\"a\":\"v\"}" :> "0ccb02fe373bfaecc73ad86aa2d8023ec6b78b44c580a03daaf5133601f16c29")
  @@ ("{\"b\":{\"a\":1,\"b\":{}},\"a\":{}}" :> "2fc8da80d5aeda7605e99b0dac773a248dd62c3e721c908fa95e9152c30724fe")
  @@ ("{\"b\":{\"a\":\"v\",\"b\":1},\"a\":1}" :> "dd613e124ca7344c0945d24c3b0c722aabb9292d12cb7ff7b74472247c97c46c")
  @@ ("{\"b\":{\"a\":\"v\",\"b\":1},\"a\":\"v\"}" :> "cb3e0f9afdcb7e2ab697731f53557b242f029105c9e97e09a7e35d2f126b345a")
  @@ ("{\"b\":{\"a\":\"v\",\"b\":1},\"a\":{}}" :> "b558c6b2cde7c418159cd5259b854a31534518687b682707c06874f6c573ca0e")
  @@ ("{\"b\":{\"a\":\"v\",\"b\":\"v\"},\"a\":1}" :> "02bf3c2ab0a54e48dbe0b6d79a37926083b3180ebf24675c3f110e1dc0cc5671")
  @@ ("{\"b\":{\"a\":\"v\",\"b\":\"v\"},\"a\":\"v\"}" :> "da243a5770a2c2f02908808abebd575f0fe6cc1cf5950f776b2916a78fc95f5a")
  @@ ("{\"b\":{\"a\":\"v\",\"b\":\"v\"},\"a\":{}}" :> "5cf3a8cdf4cecf1f1ec2967aa7a6155d8f4b88af0ceb8aabb4646b474424426f")
  @@ ("{\"b\":{\"a\":\"v\",\"b\":{}},\"a\":1}" :> "3086448ae8bd0d6cf03daf13d65e50250988f07fc6dc6b911f90845f1356c6db")
  @@ ("{\"b\":{\"a\":\"v\",\"b\":{}},\"a\":\"v\"}" :> "09f93276cc589e69ff214e62743c07c7c7b27309015ba83d7b625caf7e19fc71")
  @@ ("{\"b\":{\"a\":\"v\",\"b\":{}},\"a\":{}}" :> "14bc025ad52a47cc6e6d8105561887fd3bc5387c118be1766456c4095dc1ada8")
  @@ ("{\"b\":{\"a\":{},\"b\":1},\"a\":1}" :> "cb66fa15f795c41847113a68443c49d5940eab8f9eff00b0bcab57b77308e232")
  @@ ("{\"b\":{\"a\":{},\"b\":1},\"a\":\"v\"}" :> "f14d8613e7ea9bbf0163aefd2f30c0cde5e55eee4b767ea36ae2285a22b9ac4a")
  @@ ("{\"b\":{\"a\":{},\"b\":1},\"a\":{}}" :> "93a10cd8b1ee9284e9d6a288a718e33068a3b306f5def639178225b466557619")
  @@ ("{\"b\":{\"a\":{},\"b\":\"v\"},\"a\":1}" :> "856882683c399ad9157f36ebde8f534cfe9ab5e70fa2e09404382d3a1f5d423d")
  @@ ("{\"b\":{\"a\":{},\"b\":\"v\"},\"a\":\"v\"}" :> "ac26d14832a1a61f40a741a8582164843ac7934e8fe3ec895ebef04a00643ace")
  @@ ("{\"b\":{\"a\":{},\"b\":\"v\"},\"a\":{}}" :> "b68c952f8a3789272daf11afcd7f5fd0889dadd11ab8c5523ba7a25ed500a111")
  @@ ("{\"b\":{\"a\":{},\"b\":{}},\"a\":1}" :> "c4f6c9df224c85405eb43ac6a6579788176011dcfb18cfa29f39b8a3432d3b41")
  @@ ("{\"b\":{\"a\":{},\"b\":{}},\"a\":\"v\"}" :> "a7f33d652989b41bbd646b2de04f26050d3a949b9d68987a2fbc4e4fa09ba4cc")
  @@ ("{\"b\":{\"a\":{},\"b\":{}},\"a\":{}}" :> "7c24fb2a252bc7c6f84ab903f8efdbf91933c1f845d475447adb09792763312b")
  @@ ("{\"b\":{\"b\":1,\"a\":1},\"a\":1}" :> "169bbb682b89d7cda924110574aeed3405abf1fe665e1cd92662f0c765e246d9")
  @@ ("{\"b\":{\"b\":1,\"a\":1},\"a\":\"v\"}" :> "3931e84a5117351de77a026d2ee82f2771d2ef6aee083f3dd54c83484e649390")
  @@ ("{\"b\":{\"b\":1,\"a\":1},\"a\":{}}" :> "28726b0f28b343b255c722cb3c4f8e418bb0ffc808dc9c74d60ac6cb8677f6fc")
  @@ ("{\"b\":{\"b\":1,\"a\":\"v\"},\"a\":1}" :> "3c1569a46e96b66e5542b3eb48b00e50300eb5ac427a6ed445acd02d3a874482")
  @@ ("{\"b\":{\"b\":1,\"a\":\"v\"},\"a\":\"v\"}" :> "084a3ffb44f07e0dc58fa1fc36561ff2c3d9bc940b216d6fec42881283eea28a")
  @@ ("{\"b\":{\"b\":1,\"a\":\"v\"},\"a\":{}}" :> "f7982370582b720584ed9f07a1c38401d214caff2ebf1dcb4c0b87726e6bc09e")
  @@ ("{\"b\":{\"b\":1,\"a\":{}},\"a\":1}" :> "6daacd3c0b69d6ff48453e51ab43baf8b2ee5095790e6fee01c95f7d17b31812")
  @@ ("{\"b\":{\"b\":1,\"a\":{}},\"a\":\"v\"}" :> "8dda7a164ff535e41378e0673965faf832c9ea936df19884ab036cb297c5d10f")
  @@ ("{\"b\":{\"b\":1,\"a\":{}},\"a\":{}}" :> "92cdd3a59a37a657a5e44d24d7b933197eb83dda5307273858f9a7ecc270149c")
  @@ ("{\"b\":{\"b\":\"v\",\"a\":1},\"a\":1}" :> "3223fbf26175f5594677e1d1384716e68b01d3f42a09377d89e64ad645f6ec7e")
  @@ ("{\"b\":{\"b\":\"v\",\"a\":1},\"a\":\"v\"}" :> "da8f230fc23319771af0d5aa445f84bbce6f16650d6397b38646a0eec0666bb2")
  @@ ("{\"b\":{\"b\":\"v\",\"a\":1},\"a\":{}}" :> "52bc41627d0f9cb7ea2be58f7062e4af1c37e92e7250c191b3bf6c5adfe49c5d")
  @@ ("{\"b\":{\"b\":\"v\",\"a\":\"v\"},\"a\":1}" :> "9c032b5f4e9de56ba0f18bc6751926eed50f35974c8d074334f580bf41d76df5")
  @@ ("{\"b\":{\"b\":\"v\",\"a\":\"v\"},\"a\":\"v\"}" :> "af00cb4574cb2feceddfd8eb0a672676ba1f67eaf992b494b3d3b1bfd7d4bc11")
  @@ ("{\"b\":{\"b\":\"v\",\"a\":\"v\"},\"a\":{}}" :> "48f5252866316579e51f5aad23a7b9c84f4d5aa0a7596efbf95f81f101283244")
  @@ ("{\"b\":{\"b\":\"v\",\"a\":{}},\"a\":1}" :> "50437ec7b6afca8b8b33a7cdfe022b4b09ac72b63a59ac333d94b1bbb2c55787")
  @@ ("{\"b\":{\"b\":\"v\",\"a\":{}},\"a\":\"v\"}" :> "598ba89bcb35b28a6ae85d9e074142461bb3a4160e326fafe22c58edf3011fb0")
  @@ ("{\"b\":{\"b\":\"v\",\"a\":{}},\"a\":{}}" :> "d19526ebc5705345b0ff476ba97f2bd8b35ccf7bab44882bdf81fda7794c085b")
  @@ ("{\"b\":{\"b\":{},\"a\":1},\"a\":1}" :> "a3a2e6981540428e192bcf773b95232d20910d67949324e55bd7bd20ba612155")
  @@ ("{\"b\":{\"b\":{},\"a\":1},\"a\":\"v\"}" :> "59508958bd4e0e85b3a44e3b9073d9a77b95b0095aa5cb9577ca44d6257303a2")
  @@ ("{\"b\":{\"b\":{},\"a\":1},\"a\":{}}" :> "6cc2dd4e95072ec67294fa7867bf0ffdbc55db15a770e03ae0266dff33cb2323")
  @@ ("{\"b\":{\"b\":{},\"a\":\"v\"},\"a\":1}" :> "899be52eb740979024cde566604e9d33c83f546600aa70038956f26c3f4d1893")
  @@ ("{\"b\":{\"b\":{},\"a\":\"v\"},\"a\":\"v\"}" :> "c1d68dcd9e51d82b37ea34e6c957fc96ccb6946932dccf6d4296c4fa6108adf7")
  @@ ("{\"b\":{\"b\":{},\"a\":\"v\"},\"a\":{}}" :> "e41f96104635908e1a1abee8dc1c616bfd5a72c95e7ceaf0d07f4f3b2395c0d4")
  @@ ("{\"b\":{\"b\":{},\"a\":{}},\"a\":1}" :> "d00bcaaac3fd912b7854bb01e80ef45150d398dacb0192af3cd826b5f2659f1d")
  @@ ("{\"b\":{\"b\":{},\"a\":{}},\"a\":\"v\"}" :> "6228f777de6dd60619ee7e4c6f2aae110e2bcb4729b425dd5569371584806780")
  @@ ("{\"b\":{\"b\":{},\"a\":{}},\"a\":{}}" :> "b942f863960e4dadfe3d9fac5cfec18cc95815876142d937f12fff51c4fe0b66")

Sha256Table ==
  Sha256Digests01
  @@ Sha256Digests02
  @@ Sha256Digests03
  @@ Sha256Digests04
  @@ Sha256Digests05
  @@ Sha256Digests06
  @@ Sha256Digests07
  @@ Sha256Digests08
  @@ Sha256Digests09

Sha256Hex(s) == Sha256Table[s]

----------------------------------------------------------------------------
(* callsignature *)

RouteHashLen == 8

\* the variant that leaves the route out of the signature
Signature_no_route(route, sorted_data) ==
  IF sorted_data.raised THEN sorted_data ELSE Ok(Sha256Hex(sorted_data.value))

\* route_hash + hashlib.sha256(sorted_data).hexdigest(); a TypeError json.dumps
\* raised leaves callsignature
Signature(route, sorted_data) ==
  IF sorted_data.raised THEN sorted_data
  ELSE Ok(SubSeq(Sha256Hex(route), 1, RouteHashLen) \o Sha256Hex(sorted_data.value))

\* the variant that hashes the payload in insertion order
callsignature_unsorted(route, request_data, pregiven) ==
  IF pregiven.t # "none" THEN Ok(pregiven.s)
  ELSE Signature(route, JsonDumps(request_data, FALSE, ",", ":"))

\* the variant that tests the override for truth instead of for None
callsignature_truthy(route, request_data, pregiven) ==
  IF pregiven.t # "none" /\ pregiven.s # "" THEN Ok(pregiven.s)
  ELSE Signature(route, JsonDumps(request_data, TRUE, ",", ":"))

callsignature(route, request_data, pregiven) ==
  IF pregiven.t # "none" THEN Ok(pregiven.s)
  ELSE Signature(route, JsonDumps(request_data, TRUE, ",", ":"))

----------------------------------------------------------------------------
(* the inputs of the model *)

\* a payload has at most MaxKeys keys, counted over all nesting levels
MaxKeys == 3

Routes == {"/test", "/compute/pca", "/api/v2/pca", "/r/51613", "/r/52884"}
Keys == {"a", "b"}
Leaves == {JInt(1), JStr("v")}

\* the dicts with exactly n keys over all levels, in every insertion order
RECURSIVE DictsOfSize(_)
DictsOfSize(n) ==
  IF n = 0 THEN {JDict(<<>>)}
  ELSE UNION { UNION { { JDict(Append(d.items, <<k, v>>)) :
                           k \in Keys \ DictKeys(d),
                           v \in (IF n - 1 - m = 0 THEN Leaves ELSE {})
                                   \cup DictsOfSize(n - 1 - m) } :
                       d \in DictsOfSize(m) } :
               m \in 0..(n - 1) }

JsonDicts == UNION {DictsOfSize(n) : n \in 0..MaxKeys}
SmallDicts == DictsOfSize(0) \cup DictsOfSize(1)
Unserializable == JDict(<< <<"a", JObj>> >>)
Payloads == JsonDicts \cup {Unserializable}
Pregivens == {None, JStr(""), JStr("X")}

----------------------------------------------------------------------------
(* a run calls callsignature once, then once more *)

SigCall(route, request_data, pregiven) ==
  [route |-> route, data |-> request_data, pregiven |-> pregiven,
   ret |-> callsignature(route, request_data, pregiven)]

CallSignature ==
  /\ sig_calls = <<>>
  /\ \E route \in Routes, data \in Payloads, pregiven \in Pregivens :
       sig_calls' = <<SigCall(route, data, pregiven)>>
  /\ UNCHANGED <<files, cache_last, client_init, client, sent, client_ret, cli, race>>

\* a second call: the same payload with its keys in any order, or a small payload
CallSignatureAgain ==
  /\ Len(sig_calls) = 1
  /\ \E route \in Routes,
        data \in {p \in Payloads : PyEq(p, sig_calls[1].data)} \cup SmallDicts :
       /\ sig_calls' = Append(sig_calls, SigCall(route, data, sig_calls[1].pregiven))
  /\ UNCHANGED <<files, cache_last, client_init, client, sent, client_ret, cli, race>>

----------------------------------------------------------------------------
(* exceptions: the classes an except clause matches *)

ExcBases(e) ==
  CASE e = "UnpicklingError" -> {"UnpicklingError", "PickleError", "Exception"}
    [] e = "PicklingError" -> {"PicklingError", "PickleError", "Exception"}
    [] e = "EOFError" -> {"EOFError", "Exception"}
    [] e = "OSError" -> {"OSError", "IOError", "Exception"}
    [] e = "PermissionError" -> {"PermissionError", "OSError", "IOError", "Exception"}
    [] e = "ConnectionError" -> {"ConnectionError", "RequestException", "OSError",
                                 "IOError", "Exception"}
    [] e = "ModuleNotFoundError" -> {"ModuleNotFoundError", "ImportError", "Exception"}
    [] e = "SystemExit" -> {"SystemExit", "BaseException"}
    [] OTHER -> {e, "Exception"}

IsInstance(e, classes) == ExcBases(e) \cap classes # {}

----------------------------------------------------------------------------
(* pickle: a pickle is a sequence of tokens, PROTO <data> STOP; a file holds  *)
(* any sequence of tokens                                                   *)

\* s contains sub
Contains(s, sub) ==
  \E n \in 1..(Len(s) - Len(sub) + 1) : SubSeq(s, n, n + Len(sub) - 1) = sub

\* signatures are strings: two like those callsignature computes, and an override
\* that holds a path separator
Sigs == {"sigA", "sigB", "../sigC"}

\* cache_dir / f"{signature}.pkl" is a file of the cache directory itself unless
\* the signature holds a path separator ("../sigC" names ~/.econops/sigC.pkl)
InCacheDir(signature) == ~Contains(signature, "/")

\* cache_dir.glob("*.pkl"): the entries that are files of the cache directory
Glob(fs) == {signature \in Sigs : fs[signature].exists /\ InCacheDir(signature)}
Data(d) == [t |-> "data", d |-> d]
\* a value pickle cannot serialize (it holds a lock, a socket, ...)
Unpicklable == [t |-> "unpicklable"]
\* a value whose pickle is longer than one frame
Big(d1, d2) == [t |-> "big", d1 |-> d1, d2 |-> d2]
Values == {Data("v1"), Data("v2")}
NoFile == [exists |-> FALSE, content |-> <<>>]
File(content) == [exists |-> TRUE, content |-> content]

pickle_dumps(v) ==
  CASE v.t = "data" -> Ok(<<"PROTO", v.d, "STOP">>)
    [] v.t = "big" -> Ok(<<"PROTO", v.d1, v.d2, "STOP">>)
    [] OTHER -> Raise("TypeError")

\* pickle.dump hands the file one write per frame: a pickle longer than a frame
\* (64 KiB) reaches the file in several writes
Frames(v) ==
  IF v.t = "big" THEN << <<"PROTO", v.d1>>, <<v.d2, "STOP">> >>
  ELSE << pickle_dumps(v).value >>

\* pickle.load reads one pickle from the start of the file and ignores what follows it
pickle_load(content) ==
  IF content = <<>> THEN Raise("EOFError")
  ELSE CASE content[1] = "PROTO" ->
              IF Len(content) >= 3 /\ content[3] = "STOP"
                THEN Ok(Data(content[2]))
              ELSE IF Len(content) >= 4 /\ content[4] = "STOP"
                THEN Ok(Big(content[2], content[3]))
                ELSE Raise("UnpicklingError")       \* pickle data was truncated
         [] content[1] = "BADINT" -> Raise("ValueError")
         [] content[1] = "NOMODULE" -> Raise("ModuleNotFoundError")
         [] OTHER -> Raise("UnpicklingError")        \* invalid load key

\* contents another program, an older version or a damaged disk leaves in an entry:
\* an invalid first byte, an INT opcode without digits, a GLOBAL opcode naming
\* a module that is not installed
Damaged == {<<"JUNK">>, <<"BADINT">>, <<"NOMODULE">>}

----------------------------------------------------------------------------
(* the response cache.  Each call meets the file system as `env` describes:  *)
(* env.fail names the system call that fails with an OSError ("none": no     *)
(* call fails), env.room is the number of tokens the disk takes before it    *)
(* is full.                                                                 *)

\* the number of tokens pickle.dump writes for a value
PickleLen == Len(pickle_dumps(Data("v1")).value)
PutEnvs ==
  {[fail |-> f, room |-> PickleLen] : f \in {"none", "mkdir", "open"}}
    \cup {[fail |-> "write", room |-> k] : k \in 0..(PickleLen - 1)}
GetEnvs == {[fail |-> f, room |-> PickleLen] : f \in {"none", "mkdir", "open", "unlink"}}

get_cache_dir(env) ==
  IF env.fail = "mkdir" THEN Raise("PermissionError") ELSE Ok("~/.econops/cache")

\* the outcome of a call: what it returns or raises, and the directory afterwards
Outcome(ret, fs) == [ret |-> ret, files |-> fs]

get_cached_response(fs, signature, env) ==
  LET cache_dir == get_cache_dir(env)
      loaded == pickle_load(fs[signature].content)
  IN IF cache_dir.raised THEN Outcome(cache_dir, fs)
     ELSE IF ~fs[signature].exists THEN Outcome(Ok(None), fs)
     \* try: open(cache_file, 'rb')
     ELSE IF env.fail = "open" THEN Outcome(Raise("PermissionError"), fs)
     ELSE IF ~loaded.raised THEN Outcome(loaded, fs)
     \* except (pickle.PickleError, EOFError): cache_file.unlink(missing_ok=True)
     ELSE IF IsInstance(loaded.exc, {"PickleError", "EOFError"})
            THEN IF env.fail = "unlink"
                   THEN Outcome(Raise("PermissionError"), fs)
                   ELSE Outcome(Ok(None), [fs EXCEPT ![signature] = NoFile])
            ELSE Outcome(loaded, fs)

\* the variant that opens the entry for appending instead of truncating it
cache_response_append(fs, signature, response_data, env) ==
  LET cache_dir == get_cache_dir(env)
      pickled == pickle_dumps(response_data)
      old == fs[signature].content
  IN IF cache_dir.raised THEN Outcome(cache_dir, fs)
     ELSE IF env.fail = "open" THEN Outcome(Ok(None), fs)
     ELSE IF pickled.raised
            THEN Outcome(pickled, [fs EXCEPT ![signature] = File(old)])
            ELSE Outcome(Ok(None),
                         [fs EXCEPT ![signature] =
                                       File(old \o SubSeq(pickled.value, 1, env.room))])

cache_response(fs, signature, response_data, env) ==
  LET cache_dir == get_cache_dir(env)
      pickled == pickle_dumps(response_data)
  IN IF cache_dir.raised THEN Outcome(cache_dir, fs)
     \* try: open(cache_file, 'wb') fails: except (IOError, OSError): pass
     ELSE IF env.fail = "open" THEN Outcome(Ok(None), fs)
     \* the file is open and empty; pickle.dump raises before it writes
     ELSE IF pickled.raised
            THEN IF IsInstance(pickled.exc, {"IOError", "OSError"})
                   THEN Outcome(Ok(None), [fs EXCEPT ![signature] = File(<<>>)])
                   ELSE Outcome(pickled, [fs EXCEPT ![signature] = File(<<>>)])
     \* the disk takes env.room tokens; a short write raises OSError, swallowed
     ELSE Outcome(Ok(None),
                  [fs EXCEPT ![signature] = File(SubSeq(pickled.value, 1, env.room))])

\* for cache_file in cache_dir.glob("*.pkl"): cache_file.unlink(missing_ok=True)
\* (self is not used); with env.fail = "unlink" the directory cannot be written
\* and the first unlink raises
clear_cache(fs, env) ==
  LET cache_dir == get_cache_dir(env)
  IN IF cache_dir.raised THEN Outcome(cache_dir, fs)
     ELSE IF env.fail = "unlink" /\ Glob(fs) # {}
            THEN Outcome(Raise("PermissionError"), fs)
            ELSE Outcome(Ok(None),
                         [signature \in Sigs |->
                            IF signature \in Glob(fs) THEN NoFile ELSE fs[signature]])

\* sum(f.stat().st_size for f in cache_files if f.exists()), a token counting
\* as one byte
RECURSIVE SumSizes(_, _)
SumSizes(fs, cache_files) ==
  IF cache_files = {} THEN 0
  ELSE LET f == CHOOSE x \in cache_files : TRUE
       IN Len(fs[f].content) + SumSizes(fs, cache_files \ {f})

\* Client.get_cache_info (self is not used)
get_cache_info(fs, env) ==
  LET cache_dir == get_cache_dir(env)
  IN IF cache_dir.raised THEN Outcome(cache_dir, fs)
     ELSE Outcome(Ok([cache_directory |-> cache_dir.value,
                      cached_requests |-> Cardinality(Glob(fs)),
                      cache_size_bytes |-> SumSizes(fs, Glob(fs))]),
                  fs)

----------------------------------------------------------------------------
(* cache calls.  cache_last is the last event in the cache directory: the    *)
(* call, the entry before and after it, and what the call returned or raised *)

NoFailure == [fail |-> "none", room |-> PickleLen]

CacheEvent(op, signature, value, env, out) ==
  [op |-> op, sig |-> signature, value |-> value, env |-> env,
   before |-> files[signature], ret |-> out.ret, after |-> out.files[signature]]

NoEvent ==
  [op |-> "none", sig |-> "", value |-> None, env |-> NoFailure,
   before |-> NoFile, ret |-> Ok(None), after |-> NoFile]

CacheResponse ==
  \E signature \in Sigs, v \in Values \cup {Unpicklable}, env \in PutEnvs :
    LET out == cache_response(files, signature, v, env)
    IN /\ files' = out.files
       /\ cache_last' = CacheEvent("put", signature, v, env, out)
       /\ UNCHANGED <<sig_calls, client_init, client, sent, client_ret, cli, race>>

GetCachedResponse ==
  \E signature \in Sigs, env \in GetEnvs :
    LET out == get_cached_response(files, signature, env)
    IN /\ files' = out.files
       /\ cache_last' = CacheEvent("get", signature, None, env, out)
       /\ UNCHANGED <<sig_calls, client_init, client, sent, client_ret, cli, race>>

\* an event that concerns the whole directory
DirEvent(op, env, out) ==
  [op |-> op, sig |-> "", value |-> None, env |-> env,
   before |-> NoFile, ret |-> out.ret, after |-> NoFile]

ClearCache ==
  \E env \in {NoFailure, [fail |-> "mkdir", room |-> PickleLen],
               [fail |-> "unlink", room |-> PickleLen]} :
    LET out == clear_cache(files, env)
    IN /\ files' = out.files
       /\ cache_last' = DirEvent("clear", env, out)
       /\ UNCHANGED <<sig_calls, client_init, client, sent, client_ret, cli, race>>

GetCacheInfo ==
  \E env \in {NoFailure, [fail |-> "mkdir", room |-> PickleLen]} :
    LET out == get_cache_info(files, env)
    IN /\ files' = out.files
       /\ cache_last' = DirEvent("info", env, out)
       /\ UNCHANGED <<sig_calls, client_init, client, sent, client_ret, cli, race>>

\* something other than this program rewrites an entry
DamageEntry ==
  \E signature \in Sigs, content \in Damaged :
    /\ files[signature].exists
    /\ files' = [files EXCEPT ![signature] = File(content)]
    /\ cache_last' = CacheEvent("damage", signature, None, NoFailure,
                                Outcome(Ok(None), files'))
    /\ UNCHANGED <<sig_calls, client_init, client, sent, client_ret, cli, race>>

----------------------------------------------------------------------------
(* the transport (the requests library): each request meets the network as  *)
(* `net` describes: a response, or an exception                             *)

Response(status_code, body) == [status_code |-> status_code, body |-> body]
ClientNets == {Ok(Response(200, "json")), Raise("ConnectionError")}

\* urljoin(base_url, route), for a base URL without a path and a route that
\* starts with "/"
urljoin(base_url, route) == base_url \o route

----------------------------------------------------------------------------
(* Client *)

Truthy(x) == x.t = "str" /\ x.s # ""

\* str.rstrip('/')
RECURSIVE RStripSlash(_)
RStripSlash(x) ==
  IF Len(x) > 0 /\ SubSeq(x, Len(x), Len(x)) = "/"
    THEN RStripSlash(SubSeq(x, 1, Len(x) - 1))
    ELSE x

\* Client(token, base_url, use_cache, use_certificate), with ECONOPS_TOKEN set to
\* environ_token in the environment (None: not set)
Client__init__(token, base_url, use_cache, use_certificate, environ_token) ==
  LET self_token == IF Truthy(token) THEN token
                    ELSE IF environ_token.t = "none" THEN JStr("demo")
                    ELSE environ_token
  IN IF ~Truthy(self_token) THEN Raise("ValueError")
     ELSE Ok([token |-> self_token.s,
              base_url |-> RStripSlash(base_url),
              use_cache |-> use_cache,
              use_certificate |-> use_certificate,
              version |-> "0.1.0",
              headers |-> ("Authorization" :> ("Bearer " \o self_token.s))
                            @@ ("Content-Type" :> "application/json")])

\* what a method call did: what it returned or raised, and the requests it issued
Did(ret, requests) == [ret |-> ret, requests |-> requests]

\* the variant that sends the signature and the content type only
Send_unauthenticated(self, verb, route, json, signature, net) ==
  Did(net, << [verb |-> verb,
               url |-> urljoin(self.base_url, route),
               headers |-> ("X-Signature" :> signature)
                             @@ ("Content-Type" :> "application/json"),
               json |-> json,
               verify |-> self.use_certificate,
               outcome |-> net] >>)

\* requests.<verb>(url, json=json, headers=headers, verify=self.use_certificate)
\* with the X-Signature header added to a copy of self.headers
Send(self, verb, route, json, signature, net) ==
  Did(net, << [verb |-> verb,
               url |-> urljoin(self.base_url, route),
               headers |-> ("X-Signature" :> signature) @@ self.headers,
               json |-> json,
               verify |-> self.use_certificate,
               outcome |-> net] >>)

\* {"payload": (data or {}).copy()}
PayloadBody(data) == JDict(<< <<"payload", OrEmptyDict(data)>> >>)

\* the variant that sends again when the transport raises
SendSignedRetrying(self, verb, route, json, signature, net) ==
  IF signature.raised THEN Did(signature, <<>>)
  ELSE IF net.raised
         THEN Did(net, Send(self, verb, route, json, signature.value, net).requests
                         \o Send(self, verb, route, json, signature.value, net).requests)
         ELSE Send(self, verb, route, json, signature.value, net)

\* a TypeError from callsignature leaves the method before anything is sent
SendSigned(self, verb, route, json, signature, net) ==
  IF signature.raised THEN Did(signature, <<>>)
  ELSE Send(self, verb, route, json, signature.value, net)

\* a request method without a body: get, delete
SendPlain(self, verb, route, net) ==
  SendSigned(self, verb, route, None, callsignature(route, JDict(<<>>), None), net)

\* a request method with a body: post, put, patch
SendBody(self, verb, route, data, net) ==
  SendSigned(self, verb, route, PayloadBody(data),
             callsignature(route, OrEmptyDict(data), None), net)

Client_get(self, route, net) == SendPlain(self, "GET", route, net)
Client_delete(self, route, net) == SendPlain(self, "DELETE", route, net)
Client_post(self, route, data, net) == SendBody(self, "POST", route, data, net)
Client_put(self, route, data, net) == SendBody(self, "PUT", route, data, net)
Client_patch(self, route, data, net) == SendBody(self, "PATCH", route, data, net)
Client_create(self, route, data, net) == Client_post(self, route, data, net)

\* the parameters of each method after self; data is optional
Params(name) ==
  IF name \in {"get", "delete"} THEN <<"route">> ELSE <<"route", "data">>

\* A call client.<name>(route, ...) passes call.nargs positional arguments and the
\* keywords call.kw.  Python raises TypeError before the body runs when there are
\* more positional arguments than parameters, when a keyword names no parameter,
\* or when a keyword names a parameter a positional argument already fills.
BindFails(name, call) ==
  \/ call.nargs > Len(Params(name))
  \/ \E k \in call.kw :
       \/ \A n \in 1..Len(Params(name)) : Params(name)[n] # k
       \/ \E n \in 1..call.nargs : n <= Len(Params(name)) /\ Params(name)[n] = k

Invoke(self, name, route, call, net) ==
  IF BindFails(name, call) THEN Did(Raise("TypeError"), <<>>)
  ELSE CASE name = "get" -> Client_get(self, route, net)
         [] name = "delete" -> Client_delete(self, route, net)
         [] name = "post" -> Client_post(self, route, call.data, net)
         [] name = "put" -> Client_put(self, route, call.data, net)
         [] name = "patch" -> Client_patch(self, route, call.data, net)
         [] name = "create" -> Client_create(self, route, call.data, net)

----------------------------------------------------------------------------
(* Client calls.  `sent` is the transport's log; client_ret is the last call. *)

MaxRequests == 2

ClientRoutes == {"/test"}
SomeData == JDict(<< <<"a", JInt(1)>> >>)

\* client.m(route), client.m(route, method="GET"), client.m(route, data),
\* client.m(route, data=data), client.m(route, data, method="GET")
Calls ==
  {[nargs |-> 1, data |-> None, kw |-> {}],
   [nargs |-> 1, data |-> None, kw |-> {"method"}],
   [nargs |-> 2, data |-> SomeData, kw |-> {}],
   [nargs |-> 2, data |-> Unserializable, kw |-> {}],
   [nargs |-> 1, data |-> SomeData, kw |-> {"data"}],
   [nargs |-> 2, data |-> SomeData, kw |-> {"method"}]}

NoCall ==
  [name |-> "none", route |-> "", call |-> [nargs |-> 0, data |-> None, kw |-> {}],
   ret |-> Ok(None), requests |-> <<>>]

\* the constructor calls of the model: the token argument (None: not passed),
\* ECONOPS_TOKEN in the environment (None: not set), base_url, use_cache
Construction(token, environ_token, base_url, use_cache) ==
  [token |-> token, environ_token |-> environ_token, base_url |-> base_url,
   use_cache |-> use_cache]

Constructions ==
  {Construction(JStr("test_token"), JStr("env_token"), "https://api.econops.com", TRUE),
   Construction(JStr("test_token"), None, "https://api.econops.com", FALSE),
   Construction(None, JStr("env_token"), "https://api.econops.com/", TRUE),
   Construction(JStr(""), None, "https://api.econops.com//", TRUE),
   Construction(None, JStr(""), "https://api.econops.com", TRUE)}

NoInit ==
  [called |-> FALSE, args |-> Construction(None, None, "", TRUE), ret |-> Ok(None)]

\* client = Client(token=..., base_url=..., use_cache=...); when the constructor
\* raises there is no client
NewClient ==
  /\ ~client_init.called
  /\ \E args \in Constructions :
       LET made == Client__init__(args.token, args.base_url, args.use_cache, FALSE,
                                  args.environ_token)
       IN /\ client_init' = [called |-> TRUE, args |-> args, ret |-> made]
          /\ client' = IF made.raised THEN None ELSE made.value
  /\ UNCHANGED <<sig_calls, files, cache_last, sent, client_ret, cli, race>>

\* headers = self.headers.copy(); headers["X-Signature"] = signature: the write
\* goes to the copy, and no method assigns an attribute of self
SelfAfter(self, requests) == self

\* the call client.<name>(route, ...) and its effect on the transport's log
ClientCall(name, route, call, net) ==
  LET did == Invoke(client, name, route, call, net)
  IN /\ sent' = sent \o did.requests
     /\ client' = SelfAfter(client, did.requests)
     /\ client_ret' = [name |-> name, route |-> route, call |-> call,
                       ret |-> did.ret, requests |-> did.requests]

CanCall == client # None /\ Len(sent) < MaxRequests

Get ==
  /\ CanCall
  /\ \E route \in ClientRoutes, call \in Calls, net \in ClientNets :
       ClientCall("get", route, call, net)
  /\ UNCHANGED <<sig_calls, files, cache_last, client_init, cli, race>>

Delete ==
  /\ CanCall
  /\ \E route \in ClientRoutes, call \in Calls, net \in ClientNets :
       ClientCall("delete", route, call, net)
  /\ UNCHANGED <<sig_calls, files, cache_last, client_init, cli, race>>

Post ==
  /\ CanCall
  /\ \E route \in ClientRoutes, call \in Calls, net \in ClientNets :
       ClientCall("post", route, call, net)
  /\ UNCHANGED <<sig_calls, files, cache_last, client_init, cli, race>>

Put ==
  /\ CanCall
  /\ \E route \in ClientRoutes, call \in Calls, net \in ClientNets :
       ClientCall("put", route, call, net)
  /\ UNCHANGED <<sig_calls, files, cache_last, client_init, cli, race>>

Patch ==
  /\ CanCall
  /\ \E route \in ClientRoutes, call \in Calls, net \in ClientNets :
       ClientCall("patch", route, call, net)
  /\ UNCHANGED <<sig_calls, files, cache_last, client_init, cli, race>>

Create ==
  /\ CanCall
  /\ \E route \in ClientRoutes, call \in Calls, net \in ClientNets :
       ClientCall("create", route, call, net)
  /\ UNCHANGED <<sig_calls, files, cache_last, client_init, cli, race>>

----------------------------------------------------------------------------
(* cli.main *)

\* sys.exit(code), and argparse's parser.error, which exits with status 2
Exit(code) == [raised |-> TRUE, exc |-> "SystemExit", code |-> code]

\* an argv gives each option a string, or None when the option is absent;
\* the two flags are booleans
Choices == {"GET", "POST", "PUT", "DELETE"}

parse_args(argv) ==
  IF argv.route.t = "none" THEN Exit(2)                      \* --route is required
  ELSE IF argv.method.t # "none" /\ argv.method.s \notin Choices THEN Exit(2)
  ELSE Ok([route |-> argv.route.s,
           data |-> argv.data,
           method |-> IF argv.method.t = "none" THEN "POST" ELSE argv.method.s,
           token |-> argv.token,
           base_url |-> IF argv.base_url.t = "none" THEN "https://api.econops.com"
                        ELSE argv.base_url.s,
           pretty |-> argv.pretty,
           no_cache |-> argv.no_cache])

\* json.loads on the --data texts of the model
json_loads(text) ==
  CASE text = "{\"a\":1}" -> Ok(JDict(<< <<"a", JInt(1)>> >>))
    [] text = "{}" -> Ok(JDict(<<>>))
    [] OTHER -> Raise("JSONDecodeError")

\* the variant that reports malformed --data and goes on without data
load_data_lenient(args) ==
  IF ~Truthy(args.data) THEN [ret |-> Ok(None), stderr |-> FALSE]
  ELSE IF json_loads(args.data.s).raised THEN [ret |-> Ok(None), stderr |-> TRUE]
  ELSE [ret |-> json_loads(args.data.s), stderr |-> FALSE]

\* if args.data: try json.loads(args.data), except JSONDecodeError: print to
\* stderr and sys.exit(1)
load_data(args) ==
  IF ~Truthy(args.data) THEN [ret |-> Ok(None), stderr |-> FALSE]
  ELSE IF /\ json_loads(args.data.s).raised
          /\ IsInstance(json_loads(args.data.s).exc, {"JSONDecodeError"})
         THEN [ret |-> Exit(1), stderr |-> TRUE]
         ELSE [ret |-> json_loads(args.data.s), stderr |-> FALSE]

\* what a run did: how it ended, what it printed, what it sent
Ran(ret, stderr, stdout, requests) ==
  [ret |-> ret, stderr |-> stderr, stdout |-> stdout, requests |-> requests]

\* if args.method == "GET": client.get(args.route) elif ... (the final else is
\* out of reach: parse_args accepts the four choices only)
dispatch(self, args, data, net) ==
  CASE args.method = "GET" -> Client_get(self, args.route, net)
    [] args.method = "POST" -> Client_post(self, args.route, data, net)
    [] args.method = "PUT" -> Client_put(self, args.route, data, net)
    [] args.method = "DELETE" -> Client_delete(self, args.route, net)

\* response.json() on a body that is not JSON: requests raises the
\* JSONDecodeError of the json module it imported, simplejson's when simplejson
\* is installed and the standard library's otherwise; only the latter is
\* json.JSONDecodeError
response_json(response, has_simplejson) ==
  IF response.body = "json" THEN Ok(None)
  ELSE IF has_simplejson THEN Raise("simplejson.JSONDecodeError")
  ELSE Raise("JSONDecodeError")

\* try: print(json.dumps(response.json())) except json.JSONDecodeError:
\* print(response.text)
print_response(result, did) ==
  IF result.raised /\ ~IsInstance(result.exc, {"JSONDecodeError"})
    THEN Ran(result, FALSE, FALSE, did.requests)
    ELSE Ran(Ok(None), FALSE, TRUE, did.requests)

\* if response.status_code == 200: print the response; else: print to stderr
\* and sys.exit(1)
report(did, has_simplejson) ==
  IF did.ret.raised THEN Ran(did.ret, FALSE, FALSE, did.requests)
  ELSE IF did.ret.value.status_code = 200
         THEN print_response(response_json(did.ret.value, has_simplejson), did)
         ELSE Ran(Exit(1), TRUE, FALSE, did.requests)

with_client(made, args, data, has_simplejson, net) ==
  IF made.raised THEN Ran(made, FALSE, FALSE, <<>>)
  ELSE report(dispatch(made.value, args, data, net), has_simplejson)

with_data(loaded, args, environ_token, has_simplejson, net) ==
  IF loaded.ret.raised THEN Ran(loaded.ret, loaded.stderr, FALSE, <<>>)
  ELSE with_client(Client__init__(args.token, args.base_url, ~args.no_cache, FALSE,
                                  environ_token),
                   args, loaded.ret.value, has_simplejson, net)

\* the body of the try block
main_try(args, environ_token, has_simplejson, net) ==
  with_data(load_data(args), args, environ_token, has_simplejson, net)

\* except Exception as e: print to stderr and sys.exit(1)
except_Exception(body) ==
  IF body.ret.raised /\ IsInstance(body.ret.exc, {"Exception"})
    THEN Ran(Exit(1), TRUE, body.stdout, body.requests)
    ELSE body

\* parse_args runs before the try block
main_parsed(parsed, environ_token, has_simplejson, net) ==
  IF parsed.raised THEN Ran(parsed, TRUE, FALSE, <<>>)
  ELSE except_Exception(main_try(parsed.value, environ_token, has_simplejson, net))

main(argv, environ_token, has_simplejson, net) ==
  main_parsed(parse_args(argv), environ_token, has_simplejson, net)

\* the status the process ends with
ExitStatus(ran) ==
  IF ~ran.ret.raised THEN 0
  ELSE IF ran.ret.exc = "SystemExit" THEN ran.ret.code
  ELSE 1

CliNets ==
  {Ok(Response(200, "json")), Ok(Response(200, "text")), Ok(Response(404, "text")),
   Raise("ConnectionError")}

Argvs ==
  [route : {None, JStr("/test")},
   data : {None, JStr(""), JStr("{bad"), JStr("{\"a\":1}")},
   method : {None, JStr("GET"), JStr("POST"), JStr("PUT"), JStr("DELETE"), JStr("PATCH")},
   token : {None, JStr("tok")},
   base_url : {None},
   pretty : BOOLEAN,
   no_cache : BOOLEAN]

NoRun ==
  [ran |-> FALSE,
   argv |-> [route |-> None, data |-> None, method |-> None, token |-> None,
             base_url |-> None, pretty |-> FALSE, no_cache |-> FALSE],
   environ_token |-> None, has_simplejson |-> FALSE, net |-> Raise("ConnectionError"),
   exit |-> 0, stderr |-> FALSE, stdout |-> FALSE, requests |-> <<>>]

Main ==
  /\ ~cli.ran
  /\ \E argv \in Argvs, environ_token \in {None, JStr("")},
        has_simplejson \in BOOLEAN, net \in CliNets :
       LET ran == main(argv, environ_token, has_simplejson, net)
       IN cli' = [ran |-> TRUE, argv |-> argv, environ_token |-> environ_token,
                  has_simplejson |-> has_simplejson, net |-> net, exit |-> ExitStatus(ran), stderr |-> ran.stderr,
                  stdout |-> ran.stdout, requests |-> ran.requests]
  /\ UNCHANGED <<sig_calls, files, cache_last, client_init, client, sent, client_ret, race>>

----------------------------------------------------------------------------
(* concurrent cache calls for one signature.  The directory entry            *)
(* <signature>.pkl names an inode (0: no such file); race.inodes[k] is the    *)
(* content of inode k.  A call that has opened the file holds the inode (fd)  *)
(* and its own position in it, as the operating system keeps them; an inode   *)
(* that is unlinked stays writable through the descriptors that hold it.      *)

Writers == {"w1", "w2"}
RaceValues == {Data("v1"), Data("v2"), Big("a1", "a2"), Big("b1", "b2")}

IdleCall == [pc |-> "idle", value |-> None, fd |-> 0, pos |-> 0, left |-> <<>>,
             ret |-> Ok(None)]

NoRace ==
  [dir |-> 0, inodes |-> <<>>, w |-> [p \in Writers |-> IdleCall], r |-> IdleCall,
   last |-> "none"]

\* write(fd, frame) at position pos: the bytes land at pos whatever the file
\* holds, and a gap before pos reads as zero bytes
WriteAt(content, pos, frame) ==
  [n \in 1..(IF Len(content) > pos + Len(frame) THEN Len(content) ELSE pos + Len(frame)) |->
     IF n > pos /\ n <= pos + Len(frame) THEN frame[n - pos]
     ELSE IF n <= Len(content) THEN content[n]
     ELSE "ZERO"]

\* cache_response(signature, value) is called: cache_file = get_cache_dir() / ...
WriterCall(p) ==
  /\ race.w[p].pc = "idle"
  /\ \E v \in RaceValues :
       race' = [race EXCEPT !.w[p] = [IdleCall EXCEPT !.pc = "open", !.value = v,
                                                      !.left = Frames(v)]]
  /\ UNCHANGED <<sig_calls, files, cache_last, client_init, client, sent, client_ret, cli>>

\* open(cache_file, 'wb'): creates the file, or truncates the one the name refers to
WriterOpen(p) ==
  /\ race.w[p].pc = "open"
  /\ race' = IF race.dir = 0
               THEN [race EXCEPT !.inodes = Append(race.inodes, <<>>),
                                 !.dir = Len(race.inodes) + 1,
                                 !.w[p].fd = Len(race.inodes) + 1,
                                 !.w[p].pc = "write"]
               ELSE [race EXCEPT !.inodes[race.dir] = <<>>,
                                 !.w[p].fd = race.dir,
                                 !.w[p].pc = "write"]
  /\ UNCHANGED <<sig_calls, files, cache_last, client_init, client, sent, client_ret, cli>>

\* pickle.dump(response_data, f): one write per frame; after the last one the
\* file is closed and cache_response returns
WriterWrite(p) ==
  /\ race.w[p].pc = "write"
  /\ race' = [race EXCEPT
                !.inodes[race.w[p].fd] =
                   WriteAt(race.inodes[race.w[p].fd], race.w[p].pos, Head(race.w[p].left)),
                !.w[p].pos = race.w[p].pos + Len(Head(race.w[p].left)),
                !.w[p].left = Tail(race.w[p].left),
                !.w[p].pc = IF Len(race.w[p].left) = 1 THEN "done" ELSE "write",
                !.last = p]
  /\ UNCHANGED <<sig_calls, files, cache_last, client_init, client, sent, client_ret, cli>>

\* get_cached_response(signature) is called: if cache_file.exists()
ReaderCall ==
  /\ race.r.pc = "idle"
  /\ race' = IF race.dir = 0
               THEN [race EXCEPT !.r.pc = "done", !.r.ret = Ok(None)]
               ELSE [race EXCEPT !.r.pc = "open"]
  /\ UNCHANGED <<sig_calls, files, cache_last, client_init, client, sent, client_ret, cli>>

\* open(cache_file, 'rb'); FileNotFoundError is not caught
ReaderOpen ==
  /\ race.r.pc = "open"
  /\ race' = IF race.dir = 0
               THEN [race EXCEPT !.r.pc = "done", !.r.ret = Raise("FileNotFoundError")]
               ELSE [race EXCEPT !.r.pc = "load", !.r.fd = race.dir]
  /\ UNCHANGED <<sig_calls, files, cache_last, client_init, client, sent, client_ret, cli>>

\* cached_data = pickle.load(f); return cached_data, or except (pickle.PickleError,
\* EOFError)
ReaderLoad ==
  /\ race.r.pc = "load"
  /\ LET loaded == pickle_load(race.inodes[race.r.fd])
     IN race' = IF ~loaded.raised
                  THEN [race EXCEPT !.r.pc = "done", !.r.ret = loaded]
                ELSE IF IsInstance(loaded.exc, {"PickleError", "EOFError"})
                  THEN [race EXCEPT !.r.pc = "unlink"]
                  ELSE [race EXCEPT !.r.pc = "done", !.r.ret = loaded]
  /\ UNCHANGED <<sig_calls, files, cache_last, client_init, client, sent, client_ret, cli>>

\* cache_file.unlink(missing_ok=True); return None
ReaderUnlink ==
  /\ race.r.pc = "unlink"
  /\ race' = [race EXCEPT !.dir = 0, !.r.pc = "done", !.r.ret = Ok(None)]
  /\ UNCHANGED <<sig_calls, files, cache_last, client_init, client, sent, client_ret, cli>>

----------------------------------------------------------------------------
(* specifications *)

Init ==
  /\ sig_calls = <<>>
  /\ files = [signature \in Sigs |-> NoFile]
  /\ cache_last = NoEvent
  /\ client_init = NoInit
  /\ client = None
  /\ sent = <<>>
  /\ client_ret = NoCall
  /\ cli = NoRun
  /\ race = NoRace

NextSig == CallSignature \/ CallSignatureAgain

SpecSig == Init /\ [][NextSig]_vars

NextCache ==
  CacheResponse \/ GetCachedResponse \/ DamageEntry \/ ClearCache \/ GetCacheInfo

SpecCache == Init /\ [][NextCache]_vars

NextClient == NewClient \/ Get \/ Delete \/ Post \/ Put \/ Patch \/ Create

SpecClient == Init /\ [][NextClient]_vars

NextRace ==
  \/ \E p \in Writers : WriterCall(p) \/ WriterOpen(p) \/ WriterWrite(p)
  \/ ReaderCall \/ ReaderOpen \/ ReaderLoad \/ ReaderUnlink

SpecRace == Init /\ [][NextRace]_vars

NextCli == Main

SpecCli == Init /\ [][NextCli]_vars

----------------------------------------------------------------------------
(* properties of callsignature, under SpecSig *)

\* a call that computed its signature: no override, and json.dumps succeeded
Hashed(c) == c.pregiven.t = "none" /\ ~c.ret.raised
CanonicalText(c) == JsonDumps(c.data, TRUE, ",", ":").value
RoutePrefix(c) == SubSeq(Sha256Hex(c.route), 1, RouteHashLen)

\* C7: without an override, two calls with the same route and with payloads that
\* are equal as JSON objects, whatever the order of their keys at any depth,
\* return the same signature.
Thm_C7 ==
  (/\ Len(sig_calls) = 2
   /\ sig_calls[1].pregiven = None
   /\ sig_calls[2].route = sig_calls[1].route
   /\ PyEq(sig_calls[1].data, sig_calls[2].data))
  => sig_calls[1].ret = sig_calls[2].ret

\* two payloads that differ in the key order of a nested dict got one signature
Wit_C7 ==
  /\ Len(sig_calls) = 2
  /\ Hashed(sig_calls[1]) /\ Hashed(sig_calls[2])
  /\ sig_calls[2].route = sig_calls[1].route
  /\ PyEq(sig_calls[1].data, sig_calls[2].data)
  /\ \E k \in DictKeys(sig_calls[1].data) :
       /\ DictGet(sig_calls[1].data, k).t = "dict"
       /\ DictGet(sig_calls[1].data, k) # DictGet(sig_calls[2].data, k)
  /\ sig_calls[1].ret = sig_calls[2].ret

\* C8: a call with an override X, the empty string included, returns X, whatever
\* the route and the payload, and without serializing the payload (a payload
\* json.dumps rejects raises nothing).
Thm_C8 ==
  \A n \in 1..Len(sig_calls) :
    sig_calls[n].pregiven.t # "none" => sig_calls[n].ret = Ok(sig_calls[n].pregiven.s)

\* the empty override was returned for a payload json.dumps cannot encode
Wit_C8 ==
  /\ Len(sig_calls) >= 1
  /\ sig_calls[1].pregiven = JStr("")
  /\ sig_calls[1].data = Unserializable
  /\ sig_calls[1].ret = Ok("")

\* C9 as stated: two calls that differ in the route or in the canonical payload
\* return different signatures.
Claim_C9 ==
  (/\ Len(sig_calls) = 2
   /\ Hashed(sig_calls[1]) /\ Hashed(sig_calls[2])
   /\ \/ sig_calls[1].route # sig_calls[2].route
      \/ CanonicalText(sig_calls[1]) # CanonicalText(sig_calls[2]))
  => sig_calls[1].ret # sig_calls[2].ret

\* C9 as amended: two calls return the same signature exactly when the first 8
\* hex characters of the SHA-256 digests of their routes agree and the SHA-256
\* digests of their canonical payloads agree.
Thm_C9 ==
  (/\ Len(sig_calls) = 2
   /\ Hashed(sig_calls[1]) /\ Hashed(sig_calls[2]))
  => (sig_calls[1].ret = sig_calls[2].ret
        <=> /\ RoutePrefix(sig_calls[1]) = RoutePrefix(sig_calls[2])
            /\ Sha256Hex(CanonicalText(sig_calls[1]))
                 = Sha256Hex(CanonicalText(sig_calls[2])))

\* two routes with one payload got different signatures
Wit_C9 ==
  /\ Len(sig_calls) = 2
  /\ Hashed(sig_calls[1]) /\ Hashed(sig_calls[2])
  /\ sig_calls[1].route # sig_calls[2].route
  /\ sig_calls[1].data = sig_calls[2].data
  /\ sig_calls[1].ret # sig_calls[2].ret

----------------------------------------------------------------------------
(* properties of the response cache, under SpecCache *)

\* what get_cached_response(signature) returns when called in the current state
\* and no system call fails
GetNow(signature) == get_cached_response(files, signature, NoFailure).ret

\* C1 as stated: right after cache_response(sig, v) has returned, for a value v
\* pickle can serialize, get_cached_response(sig) returns v.
Claim_C1 ==
  (cache_last.op = "put" /\ cache_last.value \in Values /\ ~cache_last.ret.raised)
  => GetNow(cache_last.sig) = Ok(cache_last.value)

\* C1 as amended: right after a cache_response(sig, v) in which creating the
\* directory, opening the file, serializing v and writing all of it succeeded,
\* a get_cached_response(sig) that meets no I/O failure returns v, whatever the
\* entry held before.
Thm_C1 ==
  (/\ cache_last.op = "put"
   /\ cache_last.env = NoFailure
   /\ ~pickle_dumps(cache_last.value).raised)
  => /\ ~cache_last.ret.raised
     /\ GetNow(cache_last.sig) = Ok(cache_last.value)

\* a put replaced the complete entry of another value, and get returns the new one
Wit_C1 ==
  /\ cache_last.op = "put"
  /\ cache_last.env = NoFailure
  /\ cache_last.before.exists
  /\ ~pickle_load(cache_last.before.content).raised
  /\ pickle_load(cache_last.before.content).value # cache_last.value
  /\ GetNow(cache_last.sig) = Ok(cache_last.value)

\* C2 as stated, for the calls in which no system call fails:
\* get_cached_response raises nothing; it returns None when the entry does not
\* exist; and when the entry cannot be unpickled it returns None and the entry
\* is gone afterwards.
Claim_C2 ==
  (cache_last.op = "get" /\ cache_last.env = NoFailure)
  => /\ ~cache_last.ret.raised
     /\ ~cache_last.before.exists => cache_last.ret = Ok(None)
     /\ (cache_last.before.exists /\ pickle_load(cache_last.before.content).raised)
          => (cache_last.ret = Ok(None) /\ ~cache_last.after.exists)

\* C3 as stated: cache_response raises nothing, whatever fails while it
\* persists the entry.
Claim_C3 == cache_last.op = "put" => ~cache_last.ret.raised

----------------------------------------------------------------------------
(* properties of the Client's request methods, under SpecClient *)

\* the request is the same as an earlier one that was answered with status 200
Repeats(j, i) ==
  /\ i < j
  /\ sent[i].verb = sent[j].verb
  /\ sent[i].url = sent[j].url
  /\ sent[i].json = sent[j].json
  /\ ~sent[i].outcome.raised
  /\ sent[i].outcome.value.status_code = 200

\* C4 as stated: a client with use_cache = TRUE never puts on the wire a request
\* identical to an earlier one that was answered with status 200 (the repeated
\* call is served from the cache), and a client with use_cache = FALSE sends
\* every request.
Claim_C4 ==
  /\ (client # None /\ client.use_cache)
       => \A j \in 1..Len(sent) : \A i \in 1..Len(sent) : ~Repeats(j, i)
  /\ (client # None /\ ~client.use_cache /\ client_ret.name # "none"
        /\ ~client_ret.ret.raised)
       => Len(client_ret.requests) = 1

\* the last call is one Python binds to the method's parameters
Bound == client_ret.name # "none" /\ ~BindFails(client_ret.name, client_ret.call)

\* what callsignature makes of the payload of the last call
CallSig == callsignature(client_ret.route, OrEmptyDict(client_ret.call.data), None)

Claim_C10 ==
  (client_ret.name = "get" /\ client_ret.call.kw \subseteq {"method"}) =>
    /\ Len(client_ret.requests) = 1
    /\ IF client_ret.call.data # None
         THEN /\ client_ret.requests[1].verb = "POST"
              /\ client_ret.requests[1].json.t = "dict"
              /\ \A k \in DictKeys(client_ret.call.data) :
                   /\ k \in DictKeys(client_ret.requests[1].json)
                   /\ DictGet(client_ret.requests[1].json, k)
                        = DictGet(client_ret.call.data, k)
              /\ "signature" \in DictKeys(client_ret.requests[1].json)
              /\ DictGet(client_ret.requests[1].json, "signature").t = "str"
              /\ Len(DictGet(client_ret.requests[1].json, "signature").s) = 72
         ELSE /\ client_ret.requests[1].verb = "GET"
              /\ ~Contains(client_ret.requests[1].url, "signature=")

----------------------------------------------------------------------------
(* properties of the command line, under SpecCli *)

\* argparse rejects the arguments
Rejected ==
  \/ cli.argv.route = None
  \/ cli.argv.method # None /\ cli.argv.method.s \notin Choices

\* --data holds a non-empty string json.loads rejects
Malformed == Truthy(cli.argv.data) /\ json_loads(cli.argv.data.s).raised

\* one request was sent and answered with status 200
Got200 ==
  /\ Len(cli.requests) = 1
  /\ ~cli.requests[1].outcome.raised
  /\ cli.requests[1].outcome.value.status_code = 200

----------------------------------------------------------------------------
(* properties of clear_cache and get_cache_info, under SpecCache *)

\* what get_cache_info() returns when called in the current state and no system
\* call fails
InfoNow == get_cache_info(files, NoFailure).ret.value

\* the signatures that have an entry
Stored == {signature \in Sigs : files[signature].exists}

\* C11 as stated: right after clear_cache() has returned, get_cached_response
\* returns None for every signature and get_cache_info reports no entry and no
\* byte; and in every state get_cache_info reports the number of entries that
\* exist and the sum of their sizes.
Claim_C11 ==
  /\ (cache_last.op = "clear" /\ ~cache_last.ret.raised)
       => /\ \A signature \in Sigs : GetNow(signature) = Ok(None)
          /\ InfoNow.cached_requests = 0
          /\ InfoNow.cache_size_bytes = 0
  /\ InfoNow.cached_requests = Cardinality(Stored)
  /\ InfoNow.cache_size_bytes = SumSizes(files, Stored)

\* C11 for the signatures without a path separator only: clear_cache removes
\* their entries, and get_cache_info counts them and sums their sizes.
ClearEmptiesDirectory ==
  /\ (cache_last.op = "clear" /\ ~cache_last.ret.raised)
       => /\ \A signature \in Sigs :
               InCacheDir(signature) => GetNow(signature) = Ok(None)
          /\ InfoNow.cached_requests = 0
          /\ InfoNow.cache_size_bytes = 0
  /\ InfoNow.cached_requests = Cardinality({signature \in Stored : InCacheDir(signature)})
  /\ InfoNow.cache_size_bytes
       = SumSizes(files, {signature \in Stored : InCacheDir(signature)})

----------------------------------------------------------------------------
(* properties of the Client constructor and its headers, under SpecClient *)

\* the token of a constructed client: token or os.environ.get('ECONOPS_TOKEN', 'demo')
ExpectedToken(args) ==
  IF Truthy(args.token) THEN args.token.s
  ELSE IF args.environ_token # None THEN args.environ_token.s
  ELSE "demo"

----------------------------------------------------------------------------
(* persistence of cache entries, under SpecCache *)

\* the entry holds a complete pickle: get_cached_response returns its value
Readable(f) == f.exists /\ ~pickle_load(f.content).raised

\* C13 as stated: an entry cache_response has stored stays readable through
\* every call of get_cached_response and get_cache_info and every
\* cache_response of a value pickle can serialize, for any signature and
\* whatever fails in the call: only clear_cache ends it.
Claim_C13 ==
  [][\A signature \in Sigs :
       (/\ Readable(files[signature])
        /\ cache_last'.op \in {"put", "get", "info"}
        /\ cache_last'.value # Unpicklable)
         => /\ ~get_cached_response(files', signature, NoFailure).ret.raised
            /\ get_cached_response(files', signature, NoFailure).ret # Ok(None)]_vars

\* C13 without the later cache_response for the same signature: an entry stays
\* readable, with its value, through every get_cached_response and
\* get_cache_info, through every cache_response for another signature, and
\* through a cache_response for its own signature that cannot create the
\* directory or open the file.
EntryOutlivesOtherCalls ==
  [][\A signature \in Sigs :
       (/\ Readable(files[signature])
        /\ cache_last'.op \in {"put", "get", "info"}
        /\ ~(/\ cache_last'.op = "put"
             /\ cache_last'.sig = signature
             /\ cache_last'.env.fail \notin {"mkdir", "open"}))
         => files'[signature] = files[signature]]_vars

----------------------------------------------------------------------------
(* concurrent writers, under SpecRace *)

\* every writer has returned, and the reader has returned or was never called
AllFinished ==
  /\ \A p \in Writers : race.w[p].pc = "done"
  /\ race.r.pc \in {"idle", "done"}

\* the file the signature names once the calls have finished
RaceFile == IF race.dir = 0 THEN NoFile ELSE File(race.inodes[race.dir])

\* what a get_cached_response(signature) called now returns
RaceGet ==
  get_cached_response([signature \in Sigs |-> RaceFile], "sigA", NoFailure).ret

\* C14 as stated: once concurrent cache_response calls for one signature, and a
\* get_cached_response that ran beside them, have all finished,
\* get_cached_response returns the value of the writer that wrote last.
Claim_C14 ==
  AllFinished => RaceGet = Ok(race.w[race.last].value)

\* C14 without a reader and for pickles of one frame: the value of the writer
\* that wrote last is the one stored.
LastWriteWinsOneFrame ==
  (/\ AllFinished
   /\ race.r.pc = "idle"
   /\ \A p \in Writers : race.w[p].value.t = "data")
  => RaceGet = Ok(race.w[race.last].value)

=============================================================================
